---- MODULE Spec2Model ----
(***************************************************************************)
(* A model of stl2scad: the STL -> OpenSCAD converter                      *)
(* (src/stl2scad/core/converter.py) and its verification pipeline          *)
(* (src/stl2scad/core/verification/).                                      *)
(*                                                                         *)
(* Numbers.  Coordinates are integers counting units of 1e-8, the default  *)
(* absolute tolerance of numpy.allclose, so that the absolute slack of the *)
(* closeness test is one unit (Atol) and the coordinate 1.0 is One.  A     *)
(* welding tolerance is a non-negative rational [num, den].  Arithmetic is *)
(* exact: the rounding of the floating-point operations is not modelled.   *)
(*                                                                         *)
(* Python indices are kept 0-based as values (vertex_map and face          *)
(* entries); a Python list is a TLA+ sequence, so element i of the list is *)
(* element i+1 of the sequence.                                            *)
(***************************************************************************)
EXTENDS Integers, Sequences, FiniteSets, TLC

VARIABLES
    \* ---- stl2scad (converter.py) ----
    input_file,      \* the STL file: [readable, triangles]
    tolerance,       \* the tolerance argument: [num, den]
    pc,              \* the position of the call
    error,           \* the exception raised: "none", "load", "empty", "non_manifold", ...
    bad_edges,       \* the count in the non-manifold message
    points,          \* stl_mesh.points.reshape(-1, 3)
    unique_points,   \* find_unique_vertices: the unique list
    vertex_map,      \* find_unique_vertices: the index map (0-based values)
    faces,           \* the faces built from vertex_map
    final_points,    \* optimize_scad: points
    final_faces,     \* optimize_scad: faces
    output_file,     \* the output path: <<>> (absent) or <<[points, faces]>>
    stats,           \* the returned ConversionStats: <<>> or <<[...]>>
    debug,           \* the debug argument
    output_opened,   \* open(output_file, "w") has been executed
    renderer,        \* the debug block's use of OpenSCAD: [located, runs]
    debug_files,     \* the debug files present after the debug block
    \* ---- compare_metrics, verify_existing_conversion ----
    stl_metrics,     \* the metric set of the STL mesh
    scad_metrics,    \* the metric set measured from the artifact
    ver_tolerance,   \* the tolerance dict: [volume, surface_area, bounding_box]
    vpc,             \* the position of the call
    comparison,      \* compare_metrics' result
    passed,          \* VerificationResult.passed
    report,          \* VerificationResult.report: [verification_result, failures]
    \* ---- batch_verify ----
    stl_files,       \* the stl_files argument: a list of paths [dir, stem]
    disk,            \* the state of each STL file: "valid" or "corrupt"
    artifacts,       \* output_dir before the call: .scad file name -> kind
    b_pc,            \* the position of the call
    b_idx,           \* the number of inputs the loop has completed
    b_results,       \* the results dict: a set of [name, passed]
    b_reports,       \* the report files written: a set of [file, passed]
    b_converted,     \* the artifact files stl2scad wrote during the call
    b_summary,       \* verification_summary.json: <<>> or <<summary>>
    b_error,         \* the exception batch_verify raised, or "none"
    \* ---- cli.py batch_command ----
    c_dir_exists,    \* the input directory exists and is a directory
    c_files,         \* input_path.glob("**/*.stl"): a list of paths [dir, stem]
    c_html,          \* the --html-report option
    c_fate,          \* per file: the step that raises ("none" if no step) and the verdict
    c_summary_ok,    \* batch_summary.json can be written
    c_pc,            \* the position of the command
    c_idx,           \* the number of files the loop has completed
    c_results,       \* the results dict: a set of [name, passed, error]
    c_reports,       \* the report files written
    c_summary,       \* batch_summary.json: <<>> or <<summary>>
    c_exit,          \* the exit code returned: <<>> or <<code>>
    \* ---- run_openscad ----
    r_platform,      \* sys.platform
    r_openscad_path, \* the openscad_path argument: <<>> (None) or <<path>>
    r_command,       \* the executable of the command run: <<>> or <<name>>
    r_outcome,       \* how subprocess.run(command, ...) ends
    r_lingering,     \* win32: an openscad.exe is listed after the command returned
    r_tasklist_ok,   \* win32: the tasklist / taskkill commands can be run
    r_orphan_exits,  \* win32: the renderer under a killed PowerShell ends by itself
    r_pc,            \* the position of the call
    r_result,        \* the value returned: <<>> or <<boolean>>
    r_process,       \* the renderer process started by the call
    r_killed_by_name,\* taskkill /F /IM openscad.exe has been run
    r_log_written,   \* the command has written log_file
    \* ---- get_openscad_path ----
    l_platform,      \* sys.platform
    l_candidates,    \* the configured paths, in order: [path, exists, runs, version]
    l_win,           \* win32: [exe_exists, nightly]
    l_log,           \* version_check.log: <<>> (absent) or <<[token]>>
    l_pc,            \* the position of the call
    l_idx,           \* the number of candidates the loop has passed
    l_result,        \* the path returned: <<>> or <<path>>
    l_gate_token,    \* the token the version gate evaluated last: <<>> or <<version>>
    \* ---- concurrent calls of calculate_scad_metrics ----
    w_platform,      \* sys.platform
    w_cwd,           \* per caller: its working directory
    w_pc,            \* per caller: the position of its call
    w_log,           \* per caller: the log path of its invocation in flight, or <<>>
    w_files,         \* the log files written: path -> the caller that wrote last
    w_read,          \* per caller: whose output its version check read, or <<>>
    w_tmp_count,     \* the temporary directories created so far
    \* ---- calculate_scad_metrics ----
    m_scad_exists,   \* scad_path.exists()
    m_echo,          \* the echo file the renderer leaves: <<>> or <<content>>
    m_pc,            \* "start", "returned" or "raised"
    m_error,         \* the exception raised, or "none"
    m_success,       \* what run_openscad returned: <<>> (not called) or <<bool>>
    m_metrics,       \* the metric set returned, or <<>>
    \* ---- the command-line program ----
    e_entry,         \* the entry point the process was started through
    e_argv,          \* sys.argv[1:]
    e_pc,            \* "start", a command word, "returned" or "exited"
    e_call,          \* the library call the command made: <<>> or <<call>>
    e_events,        \* what happened during the run
    e_return,        \* what cli.main returned: <<>> or <<code>>
    e_exit,          \* the exit code of the process: <<>> or <<code>>
    \* ---- the verify command and its artifact ----
    t_input,         \* input_file
    t_output,        \* output_file: <<>> or <<path>>
    t_visualize,     \* the --visualize option
    t_fs,            \* the files that exist
    t_pc,            \* the position of verify_command
    t_temp_dir,      \* the temporary directory of verify_conversion, or <<>>
    t_result,        \* the VerificationResult: <<>> or <<[scad_file, passed]>>
    t_vis            \* the visualization step: <<>> or <<[scad_file, found]>>

convVars == <<input_file, tolerance, pc, error, bad_edges, points, unique_points,
              vertex_map, faces, final_points, final_faces, output_file, stats,
              debug, output_opened, renderer, debug_files>>

verVars == <<stl_metrics, scad_metrics, ver_tolerance, vpc, comparison, passed, report>>

batchVars == <<stl_files, disk, artifacts, b_pc, b_idx, b_results, b_reports, b_converted,
               b_summary, b_error>>

cliVars == <<c_dir_exists, c_files, c_html, c_fate, c_summary_ok, c_pc, c_idx,
             c_results, c_reports, c_summary, c_exit>>

runVars == <<r_platform, r_openscad_path, r_command, r_outcome, r_lingering, r_tasklist_ok, r_orphan_exits,
             r_pc, r_result, r_process, r_killed_by_name, r_log_written>>

locVars == <<l_platform, l_candidates, l_win, l_log, l_pc, l_idx, l_result,
             l_gate_token>>

logVars == <<w_platform, w_cwd, w_pc, w_log, w_files, w_read, w_tmp_count>>

\* The variables of the command line and of the renderer gateway.
metVars == <<m_scad_exists, m_echo, m_pc, m_error, m_success, m_metrics>>

mainVars == <<e_entry, e_argv, e_pc, e_call, e_events, e_return, e_exit>>

tmpVars == <<t_input, t_output, t_visualize, t_fs, t_pc, t_temp_dir, t_result, t_vis>>

toolVars == <<cliVars, runVars, locVars, logVars, metVars, mainVars, tmpVars>>

\* What the actions of the command line leave alone.
cliRest == <<convVars, verVars, batchVars, runVars, locVars, logVars, metVars, mainVars, tmpVars>>

\* What the actions of run_openscad leave alone.
runRest == <<convVars, verVars, batchVars, cliVars, locVars, logVars, metVars, mainVars, tmpVars>>

\* What the actions of get_openscad_path leave alone.
locRest == <<convVars, verVars, batchVars, cliVars, runVars, logVars, metVars, mainVars, tmpVars>>

\* What the actions of the concurrent callers leave alone.
logRest == <<convVars, verVars, batchVars, cliVars, runVars, locVars, metVars, mainVars, tmpVars>>

\* What calculate_scad_metrics leaves alone.
metRest == <<convVars, verVars, batchVars, cliVars, runVars, locVars, logVars, mainVars, tmpVars>>

\* What the command-line program leaves alone.
mainRest == <<convVars, verVars, batchVars, cliVars, runVars, locVars, logVars, metVars, tmpVars>>

\* What the verify command leaves alone.
tmpRest == <<convVars, verVars, batchVars, cliVars, runVars, locVars, logVars, metVars, mainVars>>

vars == <<convVars, verVars, batchVars, toolVars>>

(***************************************************************************)
(* Bounds and input sets                                                   *)
(***************************************************************************)
\* The largest number of triangles of an enumerated mesh.
MaxTris == 2

\* numpy.allclose's default atol (1e-8), the unit of the coordinates.
Atol == 1

\* The coordinate 1.0.
One == 100000000 * Atol

Abs(x) == IF x < 0 THEN -x ELSE x

Range(s) == {s[i] : i \in DOMAIN s}

\* The points the enumerated meshes are made of: the first two are within the
\* absolute slack of each other; the third is close to neither at tolerance 0
\* and takes both in at tolerance 1/2 when it is the unique point compared to.
PointPool == {<<0, 0, 0>>, <<1, 0, 0>>, <<0, 2, 0>>}

TrianglePool == PointPool \X PointPool \X PointPool

\* tests/test_verification.py create_cube_stl: 8 corners, 12 triangles.
CubeVertices ==
    << <<0, 0, 0>>, <<One, 0, 0>>, <<One, One, 0>>, <<0, One, 0>>,
       <<0, 0, One>>, <<One, 0, One>>, <<One, One, One>>, <<0, One, One>> >>

CubeFaces ==
    << <<0, 3, 1>>, <<1, 3, 2>>, <<0, 4, 7>>, <<0, 7, 3>>,
       <<4, 5, 6>>, <<4, 6, 7>>, <<5, 1, 2>>, <<5, 2, 6>>,
       <<2, 3, 6>>, <<3, 7, 6>>, <<0, 1, 5>>, <<0, 5, 4>> >>

CubeMesh ==
    [i \in 1..Len(CubeFaces) |->
        <<CubeVertices[CubeFaces[i][1] + 1],
          CubeVertices[CubeFaces[i][2] + 1],
          CubeVertices[CubeFaces[i][3] + 1]>>]

\* Three triangles around the edge (corner 0, corner 6) of the cube.
FanMesh ==
    << <<CubeVertices[1], CubeVertices[7], CubeVertices[2]>>,
       <<CubeVertices[1], CubeVertices[7], CubeVertices[4]>>,
       <<CubeVertices[7], CubeVertices[1], CubeVertices[5]>> >>

\* Two fans: the edges (0, 6) and (1, 7) are each shared by three triangles.
TwoFanMesh ==
    FanMesh \o
    << <<CubeVertices[2], CubeVertices[8], CubeVertices[3]>>,
       <<CubeVertices[2], CubeVertices[8], CubeVertices[5]>>,
       <<CubeVertices[8], CubeVertices[2], CubeVertices[6]>> >>

\* A closed tetrahedron with small coordinates: at tolerance 1/2 its fourth
\* corner welds to its third.
TetraVertices == << <<0, 0, 0>>, <<4, 0, 0>>, <<0, 4, 0>>, <<0, 6, 1>> >>

TetraMesh ==
    << <<TetraVertices[1], TetraVertices[3], TetraVertices[2]>>,
       <<TetraVertices[1], TetraVertices[2], TetraVertices[4]>>,
       <<TetraVertices[2], TetraVertices[3], TetraVertices[4]>>,
       <<TetraVertices[3], TetraVertices[1], TetraVertices[4]>> >>

SeqsUpTo(S, n) == UNION {[1..k -> S] : k \in 0..n}

Meshes == SeqsUpTo(TrianglePool, MaxTris) \cup {CubeMesh, FanMesh, TwoFanMesh, TetraMesh}

TolZero == [num |-> 0, den |-> 1]
TolDefault == [num |-> 1, den |-> 1000000]
TolHalf == [num |-> 1, den |-> 2]

Tolerances == {TolZero, TolDefault, TolHalf}

(***************************************************************************)
(* validate_stl                                                            *)
(***************************************************************************)
\* Python's order on tuples of three floats.
TupleLeq(p, q) ==
    \/ p[1] < q[1]
    \/ p[1] = q[1] /\ p[2] < q[2]
    \/ p[1] = q[1] /\ p[2] = q[2] /\ p[3] <= q[3]

\* tuple(sorted([tuple(face[j]), tuple(face[(j + 1) % 3])])), j 0-based
EdgeKey(face, j) ==
    LET a == face[j + 1]
        b == face[((j + 1) % 3) + 1]
    IN IF TupleLeq(a, b) THEN <<a, b>> ELSE <<b, a>>

\* The three (key, face index) entries face i appends, in order.
FaceEdges(vectors, i) == [j \in 1..3 |-> EdgeKey(vectors[i], j - 1)]

\* len(edges[e]) once every face is processed: one entry per (face, side).
EdgeRefs(vectors, e) ==
    Cardinality({ij \in (1..Len(vectors)) \X (1..3) :
                    FaceEdges(vectors, ij[1])[ij[2]] = e})

EdgeKeys(vectors) ==
    {FaceEdges(vectors, ij[1])[ij[2]] : ij \in (1..Len(vectors)) \X (1..3)}

NonManifold(vectors) == {e \in EdgeKeys(vectors) : EdgeRefs(vectors, e) > 2}

\* validate_stl without its first check (lines 249-250).
ValidateStlNoEmptyCheck(vectors) ==
    LET non_manifold == NonManifold(vectors)
    IN IF non_manifold # {}
       THEN [error |-> "non_manifold", count |-> Cardinality(non_manifold)]
       ELSE [error |-> "none", count |-> 0]

\* validate_stl without the non-manifold check.
ValidateStlNoManifoldCheck(vectors) ==
    IF Len(vectors) = 0
    THEN [error |-> "empty", count |-> 0]
    ELSE [error |-> "none", count |-> 0]

\* The outcome of validate_stl(mesh): the error raised and the count reported.
ValidateStl(vectors) ==
    IF Len(vectors) = 0
    THEN [error |-> "empty", count |-> 0]
    ELSE LET non_manifold == NonManifold(vectors)
         IN IF non_manifold # {}
            THEN [error |-> "non_manifold", count |-> Cardinality(non_manifold)]
            ELSE [error |-> "none", count |-> 0]

(***************************************************************************)
(* find_unique_vertices                                                    *)
(***************************************************************************)
\* The closeness test with the relative term subtracted (rtol=-tolerance).
IsCloseNegated(a, b, tol) == Abs(a - b) <= Atol - ((tol.num * Abs(b)) \div tol.den)

\* One component of numpy.allclose(a, b, rtol=tol): |a - b| <= atol + rtol * |b|.
\* The left side is an integer, so the bound can be floored.
IsClose(a, b, tol) == Abs(a - b) <= Atol + ((tol.num * Abs(b)) \div tol.den)

\* The closeness test satisfied by one close component (any for all).
AnyClose(vertex, unique, tol) ==
    \E k \in 1..3 : Abs(vertex[k] - unique[k]) <= Atol + ((tol.num * Abs(unique[k])) \div tol.den)

\* numpy.allclose(vertex, unique, rtol=tol): every component is close.
AllClose(vertex, unique, tol) == \A k \in 1..3 : IsClose(vertex[k], unique[k], tol)

\* An inner loop without the break: the last unique vertex that vertex is
\* close to wins.
RECURSIVE LastMatch(_, _, _, _)
LastMatch(vertex, uniq, tol, j) ==
    IF j > Len(uniq) THEN 0
    ELSE IF LastMatch(vertex, uniq, tol, j + 1) # 0
         THEN LastMatch(vertex, uniq, tol, j + 1)
         ELSE IF AllClose(vertex, uniq[j], tol) THEN j ELSE 0

\* The inner loop: the 1-based position of the first unique vertex that vertex
\* is close to, or 0 when there is none.
RECURSIVE FirstMatch(_, _, _, _)
FirstMatch(vertex, uniq, tol, j) ==
    IF j > Len(uniq) THEN 0
    ELSE IF AllClose(vertex, uniq[j], tol) THEN j
    ELSE FirstMatch(vertex, uniq, tol, j + 1)

\* The index taken after the append instead of before it.
NewIndexAfterAppend(uniq) == Len(uniq) + 1

\* The index recorded for a vertex that joins no cluster.
NewIndex(uniq) == Len(uniq)

\* The outer loop from input position i on.
RECURSIVE WeldFrom(_, _, _, _, _)
WeldFrom(pts, tol, i, uniq, map) ==
    IF i > Len(pts) THEN [unique |-> uniq, map |-> map]
    ELSE LET j == FirstMatch(pts[i], uniq, tol, 1)
         IN IF j # 0
            THEN WeldFrom(pts, tol, i + 1, uniq, Append(map, j - 1))
            ELSE WeldFrom(pts, tol, i + 1, Append(uniq, pts[i]),
                          Append(map, NewIndex(uniq)))

FindUniqueVertices(pts, tol) == WeldFrom(pts, tol, 1, <<>>, <<>>)

(***************************************************************************)
(* optimize_scad                                                           *)
(***************************************************************************)
\* used_vertices: every index some face holds.
UsedVertices(fs) == UNION {Range(f) : f \in Range(fs)}

\* The first loop from point i on: new_points, and vertex_map as a function on
\* the 0-based indices of the points kept.
RECURSIVE CompactFrom(_, _, _, _, _)
CompactFrom(pts, used, i, new_points, map) ==
    IF i > Len(pts) THEN [points |-> new_points, map |-> map]
    ELSE IF (i - 1) \in used
         THEN CompactFrom(pts, used, i + 1, Append(new_points, pts[i]),
                          map @@ ((i - 1) :> Len(new_points)))
         ELSE CompactFrom(pts, used, i + 1, new_points, map)

\* The faces returned as they were given.
RemapFacesForgotten(fs, map) == fs

\* [[vertex_map[v] for v in face] for face in faces]
RemapFaces(fs, map) == [k \in 1..Len(fs) |-> [c \in 1..Len(fs[k]) |-> map[fs[k][c]]]]

\* optimize_scad(points, faces); vertex_map[v] raises KeyError for an index
\* that is no index of points.
OptimizeScad(pts, fs) ==
    LET c == CompactFrom(pts, UsedVertices(fs), 1, <<>>, <<>>)
    IN IF \E v \in UsedVertices(fs) : v \notin DOMAIN c.map
       THEN [error |-> "KeyError", points |-> <<>>, faces |-> <<>>]
       ELSE [error |-> "none", points |-> c.points, faces |-> RemapFaces(fs, c.map)]

\* The converter variables no call of stl2scad has touched.
ConvIdle ==
    /\ input_file = [readable |-> FALSE, triangles |-> <<>>]
    /\ error = "none"
    /\ bad_edges = 0
    /\ output_file = <<>>
    /\ stats = <<>>
    /\ debug = FALSE
    /\ output_opened = FALSE
    /\ renderer = [located |-> "untried", runs |-> 0]
    /\ debug_files = {}

\* No batch_verify call is in progress.
BatchIdle ==
    /\ stl_files = <<>>
    /\ disk = <<>>
    /\ artifacts = <<>>
    /\ b_pc = "idle"
    /\ b_idx = 0
    /\ b_results = {}
    /\ b_reports = {}
    /\ b_converted = {}
    /\ b_summary = <<>>
    /\ b_error = "none"

\* No batch command is in progress.
CliIdle ==
    /\ c_dir_exists = FALSE
    /\ c_files = <<>>
    /\ c_html = FALSE
    /\ c_fate = <<>>
    /\ c_summary_ok = FALSE
    /\ c_pc = "idle"
    /\ c_idx = 0
    /\ c_results = {}
    /\ c_reports = {}
    /\ c_summary = <<>>
    /\ c_exit = <<>>

\* No run_openscad call is in progress.
RunIdle ==
    /\ r_platform = "linux"
    /\ r_openscad_path = <<>>
    /\ r_command = <<>>
    /\ r_outcome = "exit0"
    /\ r_lingering = FALSE
    /\ r_tasklist_ok = FALSE
    /\ r_orphan_exits = FALSE
    /\ r_pc = "idle"
    /\ r_result = <<>>
    /\ r_process = "none"
    /\ r_killed_by_name = FALSE
    /\ r_log_written = FALSE

\* No get_openscad_path call is in progress.
LocIdle ==
    /\ l_platform = "linux"
    /\ l_candidates = <<>>
    /\ l_win = [exe_exists |-> FALSE, nightly |-> FALSE]
    /\ l_log = <<>>
    /\ l_pc = "idle"
    /\ l_idx = 0
    /\ l_result = <<>>
    /\ l_gate_token = <<>>

\* No concurrent callers are under way.
LogIdle ==
    /\ w_platform = "linux"
    /\ w_cwd = <<>>
    /\ w_pc = <<>>
    /\ w_log = <<>>
    /\ w_files = <<>>
    /\ w_read = <<>>
    /\ w_tmp_count = 0

\* calculate_scad_metrics is not under way.
MetIdle ==
    /\ m_scad_exists = FALSE
    /\ m_echo = <<>>
    /\ m_pc = "idle"
    /\ m_error = "none"
    /\ m_success = <<>>
    /\ m_metrics = <<>>

\* The command-line program is not running.
MainIdle ==
    /\ e_entry = "none"
    /\ e_argv = <<>>
    /\ e_pc = "idle"
    /\ e_call = <<>>
    /\ e_events = {}
    /\ e_return = <<>>
    /\ e_exit = <<>>

\* The verify command is not running.
TmpIdle ==
    /\ t_input = ""
    /\ t_output = <<>>
    /\ t_visualize = FALSE
    /\ t_fs = {}
    /\ t_pc = "idle"
    /\ t_temp_dir = <<>>
    /\ t_result = <<>>
    /\ t_vis = <<>>

\* Neither the command line nor the renderer gateway is in use.
ToolsIdle == CliIdle /\ RunIdle /\ LocIdle /\ LogIdle /\ MetIdle /\ MainIdle /\ TmpIdle

(***************************************************************************)
(* compare_metrics and verify_existing_conversion                          *)
(*                                                                         *)
(* A metric value is an integer; an optional value is <<>> (None, or the   *)
(* key missing) or <<v>>.  A percentage is a rational [inf, num, den] with *)
(* den > 0, or float('inf') when inf is TRUE.  A tolerance is a rational   *)
(* [num, den] of percent.                                                  *)
(***************************************************************************)
None == <<>>

Some(v) == <<v>>

Infinity == [inf |-> TRUE, num |-> 0, den |-> 1]

\* (diff / source) * 100 if source != 0 else float('inf')
PercentOf(diff, source) ==
    IF source # 0
    THEN IF source > 0
         THEN [inf |-> FALSE, num |-> 100 * diff, den |-> source]
         ELSE [inf |-> FALSE, num |-> -(100 * diff), den |-> -source]
    ELSE Infinity

\* One entry of the comparison: stl, scad, difference, difference_percent.
CompareValues(stl_value, scad_value) ==
    [stl |-> stl_value,
     scad |-> scad_value,
     difference |-> scad_value - stl_value,
     difference_percent |-> PercentOf(scad_value - stl_value, stl_value)]

\* The guard of each block: the key is in both dicts and neither value is None.
InBoth(stl, scad, key) == stl[key] # None /\ scad[key] # None

\* compare_metrics(stl_metrics, scad_metrics), lines 190-242.
CompareMetrics(stl, scad) ==
    [volume |->
        IF InBoth(stl, scad, "volume")
        THEN Some(CompareValues(stl.volume[1], scad.volume[1])) ELSE None,
     surface_area |->
        IF InBoth(stl, scad, "surface_area")
        THEN Some(CompareValues(stl.surface_area[1], scad.surface_area[1])) ELSE None,
     bounding_box |->
        IF InBoth(stl, scad, "bounding_box")
        THEN Some([dim \in {"width", "height", "depth"} |->
                      CompareValues(stl.bounding_box[1][dim], scad.bounding_box[1][dim])])
        ELSE None]

\* abs(difference_percent)
AbsPercent(p) == [inf |-> p.inf, num |-> Abs(p.num), den |-> p.den]

\* The test p >= tol.
ExceedsOrEquals(p, tol) == p.inf \/ p.num * tol.den >= tol.num * p.den

\* The test p > tol of a percentage against a tolerance.
Exceeds(p, tol) == p.inf \/ p.num * tol.den > tol.num * p.den

\* The order in which the bounding-box dimensions are visited.
Dimensions == <<"width", "height", "depth">>

\* A verdict that looks at the volume only.
ComputePassedVolumeOnly(cmp, tol) ==
    cmp.volume # None =>
        ~Exceeds(AbsPercent(cmp.volume[1].difference_percent), tol.volume)

\* Lines 189-210: passed.
ComputePassed(cmp, tol) ==
    /\ cmp.volume # None =>
          ~Exceeds(AbsPercent(cmp.volume[1].difference_percent), tol.volume)
    /\ cmp.surface_area # None =>
          ~Exceeds(AbsPercent(cmp.surface_area[1].difference_percent), tol.surface_area)
    /\ cmp.bounding_box # None =>
          \A i \in 1..3 :
              ~Exceeds(AbsPercent(cmp.bounding_box[1][Dimensions[i]].difference_percent),
                       tol.bounding_box)

\* One entry of report['failures'].
Failure(metric, p, tol) == [metric |-> metric, difference_percent |-> p, tolerance |-> tol]

\* The failures one metric adds: none or one.
FailureOf(metric, entry, tol) ==
    IF entry # None /\ Exceeds(AbsPercent(entry[1].difference_percent), tol)
    THEN <<Failure(metric, AbsPercent(entry[1].difference_percent), tol)>>
    ELSE <<>>

BoxEntry(cmp, dim) == IF cmp.bounding_box # None THEN Some(cmp.bounding_box[1][dim]) ELSE None

\* Lines 231-261: report['failures'], in the order appended.
ComputeFailures(cmp, tol) ==
    FailureOf("volume", cmp.volume, tol.volume)
    \o FailureOf("surface_area", cmp.surface_area, tol.surface_area)
    \o FailureOf("bounding_box_width", BoxEntry(cmp, "width"), tol.bounding_box)
    \o FailureOf("bounding_box_height", BoxEntry(cmp, "height"), tol.bounding_box)
    \o FailureOf("bounding_box_depth", BoxEntry(cmp, "depth"), tol.bounding_box)

\* Lines 186-265 of verify_existing_conversion, given the two metric sets.
VerifyMetrics(stl, scad, tol) ==
    LET cmp == CompareMetrics(stl, scad)
        ok == ComputePassed(cmp, tol)
    IN [comparison |-> cmp,
        passed |-> ok,
        report |-> [verification_result |-> IF ok THEN "passed" ELSE "failed",
                    failures |-> ComputeFailures(cmp, tol)]]

Box(w, h, d) == [width |-> w, height |-> h, depth |-> d]

\* What get_stl_metrics returns: every field is set.
StlMetricSets ==
    [volume : {Some(0), Some(100), Some(-100)},
     surface_area : {Some(600)},
     bounding_box : {Some(Box(10, 10, 10)), Some(Box(10, 0, 10))}]

\* What calculate_scad_metrics returns: any field may be None.
ScadMetricSets ==
    [volume : {None, Some(0), Some(5), Some(100), Some(101), Some(102), Some(-101)},
     surface_area : {None, Some(600), Some(630)},
     bounding_box : {None, Some(Box(10, 10, 10)), Some(Box(10, 0, 11)), Some(Box(10, 10, 11))}]

\* Metric sets handed to compare_metrics by any caller: a field may be None
\* on either side.
PartialMetricSets ==
    [volume : {None, Some(0), Some(100)},
     surface_area : {None, Some(600)},
     bounding_box : {None, Some(Box(10, 10, 10))}]

Pct(n, d) == [num |-> n, den |-> d]

\* verify_conversion's defaults (lines 144-148) and the tolerances of the
\* verification scenario (0.5 and 2.0 percent of volume).
DefaultTolerance == [volume |-> Pct(1, 1), surface_area |-> Pct(2, 1), bounding_box |-> Pct(1, 2)]

VerTolerances ==
    [volume : {Pct(1, 2), Pct(1, 1), Pct(2, 1)},
     surface_area : {Pct(2, 1), Pct(5, 1)},
     bounding_box : {Pct(1, 2), Pct(10, 1)}]

\* No verification call is in progress.
VerIdle ==
    /\ stl_metrics = None
    /\ scad_metrics = None
    /\ ver_tolerance = DefaultTolerance
    /\ vpc = "idle"
    /\ comparison = None
    /\ passed = FALSE
    /\ report = None

VerInit ==
    /\ \/ stl_metrics \in StlMetricSets /\ scad_metrics \in ScadMetricSets
       \/ stl_metrics \in PartialMetricSets /\ scad_metrics \in PartialMetricSets
    /\ ver_tolerance \in VerTolerances
    /\ vpc = "start"
    /\ comparison = None
    /\ passed = FALSE
    /\ report = None

\* comparison = compare_metrics(stl_metrics, scad_metrics)
CompareMetricsCall ==
    /\ vpc = "start"
    /\ comparison' = Some(CompareMetrics(stl_metrics, scad_metrics))
    /\ vpc' = "compared"
    /\ UNCHANGED <<stl_metrics, scad_metrics, ver_tolerance, passed, report>>
    /\ UNCHANGED convVars
    /\ UNCHANGED batchVars
    /\ UNCHANGED toolVars

\* verify_existing_conversion once both metric sets are calculated (lines
\* 186-265); the STL metrics are get_stl_metrics', so every field is set.
VerifyExistingConversion ==
    /\ vpc = "start"
    /\ stl_metrics \in StlMetricSets
    /\ LET r == VerifyMetrics(stl_metrics, scad_metrics, ver_tolerance)
       IN /\ comparison' = Some(r.comparison)
          /\ passed' = r.passed
          /\ report' = Some(r.report)
    /\ vpc' = "returned"
    /\ UNCHANGED <<stl_metrics, scad_metrics, ver_tolerance>>
    /\ UNCHANGED convVars
    /\ UNCHANGED batchVars
    /\ UNCHANGED toolVars

VerNext ==
    \/ CompareMetricsCall
    \/ VerifyExistingConversion

\* No converter call is in progress.
ConvUnused ==
    /\ ConvIdle
    /\ tolerance = TolZero
    /\ pc = "idle"
    /\ points = <<>>
    /\ unique_points = <<>>
    /\ vertex_map = <<>>
    /\ faces = <<>>
    /\ final_points = <<>>
    /\ final_faces = <<>>

InitVerify == VerInit /\ ConvUnused /\ BatchIdle /\ ToolsIdle

SpecVerify == InitVerify /\ [][VerNext]_vars

(***************************************************************************)
(* stl2scad                                                                *)
(***************************************************************************)
\* stl_mesh.points.reshape(-1, 3): the corners of the triangles, in order.
Flatten(vectors) ==
    [i \in 1..(3 * Len(vectors)) |-> vectors[((i - 1) \div 3) + 1][((i - 1) % 3) + 1]]

\* Faces that hold the index of their first corner three times.
BuildFacesFirstCorner(pts, map) ==
    [k \in 1..(Len(pts) \div 3) |-> <<map[3 * k - 2], map[3 * k - 2], map[3 * k - 2]>>]

\* Faces whose corners are taken in the reverse order.
BuildFacesReversed(pts, map) ==
    [k \in 1..(Len(pts) \div 3) |-> <<map[3 * k], map[3 * k - 1], map[3 * k - 2]>>]

\* The face loop with a step of 1 instead of 3.
BuildFacesEveryPoint(pts, map) ==
    [k \in 1..(Len(pts) - 2) |-> <<map[k], map[k + 1], map[k + 2]>>]

\* for i in range(0, len(points), 3): [vertex_map[i], vertex_map[i+1], vertex_map[i+2]]
BuildFaces(pts, map) ==
    [k \in 1..(Len(pts) \div 3) |-> <<map[3 * k - 2], map[3 * k - 1], map[3 * k]>>]

\* f"{x:.6f}": the coordinate rounded to a multiple of 1e-6 (100 units).
Format6(x) == ((x + 50 * Atol) \div (100 * Atol)) * (100 * Atol)

FormatPoint(p) == <<Format6(p[1]), Format6(p[2]), Format6(p[3])>>

\* The state before a call of stl2scad.
ConvInit ==
    /\ \/ input_file \in {[readable |-> TRUE, triangles |-> m] : m \in Meshes}
       \/ input_file = [readable |-> FALSE, triangles |-> <<>>]
    /\ tolerance \in Tolerances
    /\ debug \in BOOLEAN
    /\ output_opened = FALSE
    /\ renderer = [located |-> "untried", runs |-> 0]
    /\ debug_files = {}
    /\ pc = "start"
    /\ error = "none"
    /\ bad_edges = 0
    /\ points = <<>>
    /\ unique_points = <<>>
    /\ vertex_map = <<>>
    /\ faces = <<>>
    /\ final_points = <<>>
    /\ final_faces = <<>>
    /\ output_file = <<>>
    /\ stats = <<>>

\* Lines 467-472: Mesh.from_file and validate_stl; any exception is re-raised.
LoadAndValidate ==
    /\ pc = "start"
    /\ IF ~input_file.readable
       THEN /\ pc' = "raised"
            /\ error' = "load"
            /\ bad_edges' = 0
       ELSE LET v == ValidateStl(input_file.triangles)
            IN /\ pc' = IF v.error = "none" THEN "validated" ELSE "raised"
               /\ error' = v.error
               /\ bad_edges' = v.count
    /\ UNCHANGED <<input_file, tolerance, points, unique_points, vertex_map, faces,
                   final_points, final_faces, output_file, stats,
                   debug, output_opened, renderer, debug_files>>
    /\ UNCHANGED verVars
    /\ UNCHANGED batchVars
    /\ UNCHANGED toolVars

\* Lines 474-489: weld, build the faces, optimize.
WeldAndOptimize ==
    /\ pc = "validated"
    /\ LET pts == Flatten(input_file.triangles)
           w == FindUniqueVertices(pts, tolerance)
           fs == BuildFaces(pts, w.map)
           o == OptimizeScad(w.unique, fs)
       IN /\ points' = pts
          /\ unique_points' = w.unique
          /\ vertex_map' = w.map
          /\ faces' = fs
          /\ final_points' = o.points
          /\ final_faces' = o.faces
          /\ error' = o.error
          /\ pc' = IF o.error = "none" THEN "converted" ELSE "raised"
    /\ UNCHANGED <<input_file, tolerance, bad_edges, output_file, stats,
                   debug, output_opened, renderer, debug_files>>
    /\ UNCHANGED verVars
    /\ UNCHANGED batchVars
    /\ UNCHANGED toolVars

\* A debug block that lets the failure to locate a renderer escape.
DebugOutcomeUnabsorbed(locate, write_ok, rendered) ==
    IF locate # "found"
    THEN [raised |-> TRUE, located |-> locate, runs |-> 0, files |-> {}]
    ELSE [raised |-> FALSE, located |-> locate, runs |-> 3,
          files |-> {"debug.scad"} \cup rendered]

\* The debug block (lines 524-662), given whether get_openscad_path finds a
\* renderer ("found"), finds none ("missing") or rejects the version
\* ("rejected"), whether the debug SCAD file can be written, and the debug
\* files the three run_openscad calls produce.  Every exception is caught by
\* the handlers of lines 656-662.
DebugOutcome(locate, write_ok, rendered) ==
    IF locate # "found"
    THEN [raised |-> FALSE, located |-> locate, runs |-> 0, files |-> {}]
    ELSE IF ~write_ok
         THEN [raised |-> FALSE, located |-> locate, runs |-> 0, files |-> {}]
         ELSE [raised |-> FALSE, located |-> locate, runs |-> 3,
               files |-> {"debug.scad"} \cup rendered]

\* Lines 491-522, and 664 when debug is False: write the artifact, build the
\* stats, return them unless the debug block is to run.
WriteOutput ==
    /\ pc = "converted"
    /\ output_opened' = TRUE
    /\ output_file' =
          <<[points |-> [i \in 1..Len(final_points) |-> FormatPoint(final_points[i])],
             faces |-> final_faces]>>
    /\ stats' = <<[original_vertices |-> Len(points),
                   deduplicated_vertices |-> Len(final_points),
                   faces |-> Len(final_faces)]>>
    /\ pc' = IF debug THEN "debugging" ELSE "done"
    /\ UNCHANGED <<input_file, tolerance, error, bad_edges, points, unique_points,
                   vertex_map, faces, final_points, final_faces,
                   debug, renderer, debug_files>>
    /\ UNCHANGED verVars
    /\ UNCHANGED batchVars
    /\ UNCHANGED toolVars

\* Lines 524-664 when debug is True: the debug analysis, then return stats.
DebugAnalysis ==
    /\ pc = "debugging"
    /\ \E locate \in {"found", "missing", "rejected"}, write_ok \in BOOLEAN,
          rendered \in SUBSET {"preview.png", "analysis.json", "debug.echo"} :
          LET out == DebugOutcome(locate, write_ok, rendered)
          IN /\ renderer' = [located |-> out.located, runs |-> out.runs]
             /\ debug_files' = out.files
             /\ pc' = IF out.raised THEN "raised" ELSE "done"
    /\ UNCHANGED <<input_file, tolerance, error, bad_edges, points, unique_points,
                   vertex_map, faces, final_points, final_faces, output_file, stats,
                   debug, output_opened>>
    /\ UNCHANGED verVars
    /\ UNCHANGED batchVars
    /\ UNCHANGED toolVars

Init == ConvInit /\ VerIdle /\ BatchIdle /\ ToolsIdle

Next ==
    \/ LoadAndValidate
    \/ WeldAndOptimize
    \/ WriteOutput
    \/ DebugAnalysis

Spec == Init /\ [][Next]_vars

(***************************************************************************)
(* find_unique_vertices called on its own                                  *)
(***************************************************************************)
\* The largest number of points of an enumerated point sequence.
MaxWeldPts == 4

\* (4,0,0) takes (7,0,0) in at tolerance 1/2 only; (8,1,0) and (8,-1,0) are
\* within the absolute slack of (7,0,0), and not of each other.
WeldPool == {<<0, 0, 0>>, <<4, 0, 0>>, <<7, 0, 0>>, <<8, 1, 0>>, <<8, -1, 0>>,
             <<10 * One, 0, 0>>, <<11 * One, 0, 0>>}

WeldInit ==
    /\ ConvIdle
    /\ pc = "weld_start"
    /\ points \in SeqsUpTo(WeldPool, MaxWeldPts)
    /\ tolerance \in Tolerances
    /\ unique_points = <<>>
    /\ vertex_map = <<>>
    /\ faces = <<>>
    /\ final_points = <<>>
    /\ final_faces = <<>>

\* unique_points, vertex_map = find_unique_vertices(points, tolerance)
WeldCall ==
    /\ pc = "weld_start"
    /\ LET w == FindUniqueVertices(points, tolerance)
       IN /\ unique_points' = w.unique
          /\ vertex_map' = w.map
    /\ pc' = "weld_done"
    /\ UNCHANGED <<input_file, tolerance, error, bad_edges, points, faces,
                   final_points, final_faces, output_file, stats,
                   debug, output_opened, renderer, debug_files>>
    /\ UNCHANGED verVars
    /\ UNCHANGED batchVars
    /\ UNCHANGED toolVars

WeldNext == WeldCall

InitWeld == WeldInit /\ VerIdle /\ BatchIdle /\ ToolsIdle

SpecWeld == InitWeld /\ [][WeldNext]_vars

(***************************************************************************)
(* optimize_scad called on its own                                         *)
(***************************************************************************)
\* The largest number of points and of faces of an enumerated call.
MaxOptPts == 3
MaxOptFaces == 2

\* Distinct points, so that a point is known by its value.
OptPoints(n) == [i \in 1..n |-> <<i, 0, 0>>]

\* Faces over the indices of n points.
OptFaces(n) == SeqsUpTo((0..(n - 1)) \X (0..(n - 1)) \X (0..(n - 1)), MaxOptFaces)

OptInit ==
    /\ ConvIdle
    /\ pc = "opt_start"
    /\ tolerance = TolZero
    /\ points = <<>>
    /\ vertex_map = <<>>
    /\ \E n \in 0..MaxOptPts :
          /\ unique_points = OptPoints(n)
          /\ faces \in OptFaces(n)
    /\ final_points = <<>>
    /\ final_faces = <<>>

\* final_points, final_faces = optimize_scad(unique_points, faces)
OptimizeCall ==
    /\ pc = "opt_start"
    /\ LET o == OptimizeScad(unique_points, faces)
       IN /\ final_points' = o.points
          /\ final_faces' = o.faces
          /\ error' = o.error
          /\ pc' = IF o.error = "none" THEN "opt_done" ELSE "raised"
    /\ UNCHANGED <<input_file, tolerance, bad_edges, points, unique_points,
                   vertex_map, faces, output_file, stats,
                   debug, output_opened, renderer, debug_files>>
    /\ UNCHANGED verVars
    /\ UNCHANGED batchVars
    /\ UNCHANGED toolVars

OptNext == OptimizeCall

InitOptimize == OptInit /\ VerIdle /\ BatchIdle /\ ToolsIdle

SpecOptimize == InitOptimize /\ [][OptNext]_vars

(***************************************************************************)
(* batch_verify                                                            *)
(*                                                                         *)
(* An input is a path [dir, stem] of an STL file that exists and is either *)
(* valid or corrupt (its load raises).  output_dir holds, under the name   *)
(* <stem>.scad, an artifact that is absent, that OpenSCAD fails to render, *)
(* that measures as the mesh does ("good"), or whose volume is 2 percent   *)
(* larger ("off").                                                         *)
(***************************************************************************)
MaxFiles == 4

StlPool ==
    << [dir |-> "a", stem |-> "p"], [dir |-> "a", stem |-> "q"],
       [dir |-> "a", stem |-> "r"], [dir |-> "a", stem |-> "s"],
       [dir |-> "b", stem |-> "p"] >>

\* The paths of the pool at the positions S, from position i on, in the
\* pool's order.
RECURSIVE Listing(_, _)
Listing(S, i) ==
    IF i > Len(StlPool) THEN <<>>
    ELSE (IF i \in S THEN <<StlPool[i]>> ELSE <<>>) \o Listing(S, i + 1)

StlFileLists ==
    {Listing(S, 1) : S \in {T \in SUBSET (1..Len(StlPool)) : Cardinality(T) <= MaxFiles}}

ArtifactKinds == {"absent", "unrenderable", "good", "off"}

\* stl_path.name
StlName(path) == path.stem \o ".stl"

\* f"{stl_path.stem}.scad"
ScadName(path) == path.stem \o ".scad"

\* f"{stl_path.stem}_verification.json"
ReportName(path) == path.stem \o "_verification.json"

\* get_stl_metrics of a valid file.
BatchStlMetrics ==
    [volume |-> Some(100), surface_area |-> Some(600),
     bounding_box |-> Some(Box(10, 10, 10))]

\* calculate_scad_metrics of an artifact that renders.
BatchScadMetrics(kind) ==
    IF kind = "good" THEN BatchStlMetrics
    ELSE [BatchStlMetrics EXCEPT !.volume = Some(102)]

\* The artifact files verify_conversion has stl2scad write: the temporary
\* artifact when scad_file is None, none when a scad_file is given.
ConvertedFiles(scad_file, stl_path) ==
    IF scad_file = None THEN {"tmp/" \o ScadName(stl_path)} ELSE {}

\* verify_conversion(stl_path, scad_path, None, debug): scad_file is given,
\* so nothing is converted; get_stl_metrics raises on a corrupt file, then
\* calculate_scad_metrics raises on a missing artifact or a failed render.
VerifyConversion(state, kind) ==
    CASE state = "corrupt" -> [error |-> "load", passed |-> FALSE]
      [] state # "corrupt" /\ kind = "absent" ->
            [error |-> "FileNotFoundError", passed |-> FALSE]
      [] state # "corrupt" /\ kind = "unrenderable" ->
            [error |-> "RuntimeError", passed |-> FALSE]
      [] OTHER ->
            [error |-> "none",
             passed |-> VerifyMetrics(BatchStlMetrics, BatchScadMetrics(kind),
                                      DefaultTolerance).passed]

\* The summary dict built from the results dict.
Summary(results) ==
    [total |-> Cardinality(results),
     passed |-> Cardinality({r \in results : r.passed}),
     failed |-> Cardinality({r \in results : ~r.passed}),
     results |-> results]

BatchInit ==
    /\ stl_files \in StlFileLists
    /\ disk \in [Range(stl_files) -> {"valid", "corrupt"}]
    /\ artifacts \in [{ScadName(f) : f \in Range(stl_files)} -> ArtifactKinds]
    /\ b_pc = "loop"
    /\ b_idx = 0
    /\ b_results = {}
    /\ b_reports = {}
    /\ b_converted = {}
    /\ b_summary = <<>>
    /\ b_error = "none"

\* One iteration of the loop: verify, save the report, store the result.
\* An exception of verify_conversion leaves batch_verify.
BatchVerifyFile ==
    /\ b_pc = "loop"
    /\ b_idx < Len(stl_files)
    /\ LET stl_path == stl_files[b_idx + 1]
           result == VerifyConversion(disk[stl_path], artifacts[ScadName(stl_path)])
       IN IF result.error # "none"
          THEN /\ b_pc' = "raised"
               /\ b_error' = result.error
               /\ UNCHANGED <<b_idx, b_results, b_reports>>
          ELSE /\ b_reports' =
                     {x \in b_reports : x.file # ReportName(stl_path)}
                     \cup {[file |-> ReportName(stl_path), passed |-> result.passed]}
               /\ b_results' =
                     {x \in b_results : x.name # StlName(stl_path)}
                     \cup {[name |-> StlName(stl_path), passed |-> result.passed]}
               /\ b_idx' = b_idx + 1
               /\ UNCHANGED <<b_pc, b_error>>
    /\ b_converted' = b_converted
                      \cup ConvertedFiles(Some(ScadName(stl_files[b_idx + 1])),
                                          stl_files[b_idx + 1])
    /\ UNCHANGED <<stl_files, disk, artifacts, b_summary>>
    /\ UNCHANGED convVars
    /\ UNCHANGED verVars
    /\ UNCHANGED toolVars

\* After the loop: write verification_summary.json and return the results.
BatchWriteSummary ==
    /\ b_pc = "loop"
    /\ b_idx = Len(stl_files)
    /\ b_summary' = Some(Summary(b_results))
    /\ b_pc' = "returned"
    /\ UNCHANGED <<stl_files, disk, artifacts, b_idx, b_results, b_reports,
                   b_converted, b_error>>
    /\ UNCHANGED convVars
    /\ UNCHANGED verVars
    /\ UNCHANGED toolVars

BatchNext ==
    \/ BatchVerifyFile
    \/ BatchWriteSummary

InitBatch == BatchInit /\ ConvUnused /\ VerIdle /\ ToolsIdle

SpecBatch == InitBatch /\ [][BatchNext]_vars

(***************************************************************************)
(* cli.py batch_command                                                    *)
(*                                                                         *)
(* The files found under the input directory are paths [dir, stem]         *)
(* relative to it.  Each file has a fate: the step of its handling that    *)
(* raises ("none" when no step does) and the verdict of its verification.  *)
(***************************************************************************)
MaxCliFiles == 2

CliPool ==
    << [dir |-> "", stem |-> "a"], [dir |-> "sub", stem |-> "b"],
       [dir |-> "sub", stem |-> "c"] >>

\* The paths of a pool at the positions S, from position i on, in the pool's
\* order.
RECURSIVE PoolListing(_, _, _)
PoolListing(pool, S, i) ==
    IF i > Len(pool) THEN <<>>
    ELSE (IF i \in S THEN <<pool[i]>> ELSE <<>>) \o PoolListing(pool, S, i + 1)

CliFileLists ==
    {PoolListing(CliPool, S, 1) :
        S \in {T \in SUBSET (1..Len(CliPool)) : Cardinality(T) <= MaxCliFiles}}

\* The steps of the handling of one file, in the order of the code.
CliSteps == <<"mkdir", "convert", "verify", "report", "visualize", "html">>

CliFates == [fail_at : Range(CliSteps) \cup {"none"}, passed : BOOLEAN]

\* str(rel_path)
RelName(path) == path.dir \o "/" \o path.stem \o ".stl"

\* rel_path.with_suffix('.verification.json')
CliReportName(path) == path.dir \o "/" \o path.stem \o ".verification.json"

\* The step at which the handling of a file raises: the visualisation and
\* HTML steps run only with --html-report.
RaisesAt(fate, html) ==
    IF fate.fail_at \in {"visualize", "html"} /\ ~html THEN "none" ELSE fate.fail_at

\* The summary dict built from the results dict.
CliSummary(results) ==
    [total |-> Cardinality(results),
     passed |-> Cardinality({r \in results : r.passed}),
     failed |-> Cardinality({r \in results : ~r.passed}),
     results |-> results]

\* The entry of a file in the results dict replaces an earlier one under the
\* same key.
PutResult(results, entry) ==
    {r \in results : r.name # entry.name} \cup {entry}

CliInit ==
    /\ c_dir_exists \in BOOLEAN
    /\ c_files \in CliFileLists
    /\ c_html \in BOOLEAN
    /\ c_fate \in [Range(c_files) -> CliFates]
    \* the output directory itself exists (line 421): only a subdirectory
    \* can fail to be made
    /\ \A f \in Range(c_files) : c_fate[f].fail_at = "mkdir" => f.dir # ""
    /\ c_summary_ok \in BOOLEAN
    /\ c_pc = "start"
    /\ c_idx = 0
    /\ c_results = {}
    /\ c_reports = {}
    /\ c_summary = <<>>
    /\ c_exit = <<>>

\* Lines 411-438: a missing input directory or an empty file list returns 1.
CliStart ==
    /\ c_pc = "start"
    /\ IF ~c_dir_exists \/ c_files = <<>>
       THEN c_pc' = "returned" /\ c_exit' = Some(1)
       ELSE c_pc' = "loop" /\ UNCHANGED c_exit
    /\ UNCHANGED <<c_dir_exists, c_files, c_html, c_fate, c_summary_ok, c_idx,
                   c_results, c_reports, c_summary>>
    /\ UNCHANGED cliRest

\* One iteration of the loop (lines 442-496).  The parent directory is made
\* outside the try block: its failure reaches the outer handler, which
\* returns 1.  A failure inside the try block is recorded for the file.
CliProcessFile ==
    /\ c_pc = "loop"
    /\ c_idx < Len(c_files)
    /\ LET stl_file == c_files[c_idx + 1]
           fate == c_fate[stl_file]
           at == RaisesAt(fate, c_html)
       IN IF at = "mkdir"
          THEN /\ c_pc' = "returned"
               /\ c_exit' = Some(1)
               /\ UNCHANGED <<c_idx, c_results, c_reports>>
          ELSE /\ c_results' =
                     PutResult(c_results,
                               IF at = "none"
                               THEN [name |-> RelName(stl_file), passed |-> fate.passed,
                                     error |-> "none"]
                               ELSE [name |-> RelName(stl_file), passed |-> FALSE,
                                     error |-> at])
               /\ c_reports' =
                     IF at \in {"none", "visualize", "html"}
                     THEN c_reports \cup {CliReportName(stl_file)}
                     ELSE c_reports
               /\ c_idx' = c_idx + 1
               /\ UNCHANGED <<c_pc, c_exit>>
    /\ UNCHANGED <<c_dir_exists, c_files, c_html, c_fate, c_summary_ok, c_summary>>
    /\ UNCHANGED cliRest

\* Lines 498-522: the summary is written and the exit code is 0, or 2 when a
\* file failed; a failure to write it reaches the outer handler.
CliWriteSummary ==
    /\ c_pc = "loop"
    /\ c_idx = Len(c_files)
    /\ IF c_summary_ok
       THEN /\ c_summary' = Some(CliSummary(c_results))
            /\ c_exit' = Some(IF CliSummary(c_results).failed = 0 THEN 0 ELSE 2)
       ELSE /\ c_exit' = Some(1)
            /\ UNCHANGED c_summary
    /\ c_pc' = "returned"
    /\ UNCHANGED <<c_dir_exists, c_files, c_html, c_fate, c_summary_ok, c_idx,
                   c_results, c_reports>>
    /\ UNCHANGED cliRest

CliNext ==
    \/ CliStart
    \/ CliProcessFile
    \/ CliWriteSummary

InitCli == CliInit /\ ConvUnused /\ VerIdle /\ BatchIdle /\ RunIdle /\ LocIdle /\ LogIdle /\ MetIdle /\ MainIdle /\ TmpIdle

SpecCli == InitCli /\ [][CliNext]_vars

(***************************************************************************)
(* run_openscad                                                            *)
(*                                                                         *)
(* subprocess.run ends with exit code 0 ("exit0"), with another exit code  *)
(* ("nonzero", CalledProcessError), by the timeout ("timeout"), or cannot  *)
(* start the command: executable missing ("missing") or another error      *)
(* ("oserror").  On win32 the command is PowerShell and the renderer runs  *)
(* under it; elsewhere the command is the renderer.                        *)
(***************************************************************************)
Platforms == {"win32", "linux", "darwin"}

RunOutcomes == {"exit0", "nonzero", "timeout", "missing", "oserror"}

\* A run_openscad whose handlers are those of the timeout and of the exit
\* code only.
RunSubprocessNoCatchAll(platform, outcome, orphan_exits) ==
    [raised |-> outcome \in {"missing", "oserror"},
     returned |-> outcome \in {"nonzero", "timeout"},
     value |-> FALSE,
     process |-> IF outcome \in {"missing", "oserror"} THEN "none" ELSE "exited",
     log_written |-> FALSE]

\* Lines 35-68 and the handlers of lines 81-94: the command is run.
\* subprocess.run kills its child on timeout: the renderer itself off win32,
\* PowerShell on win32, where the renderer under it is left alone.  The log
\* file is written by the PowerShell script only (line 46).
RunSubprocess(platform, outcome, orphan_exits) ==
    CASE outcome = "exit0" ->
            [raised |-> FALSE, returned |-> FALSE, value |-> TRUE,
             process |-> "exited", log_written |-> platform = "win32"]
      [] outcome = "nonzero" ->
            [raised |-> FALSE, returned |-> TRUE, value |-> FALSE,
             process |-> "exited", log_written |-> platform = "win32"]
      [] outcome = "timeout" ->
            [raised |-> FALSE, returned |-> TRUE, value |-> FALSE,
             process |-> IF platform # "win32" THEN "killed"
                         ELSE IF orphan_exits THEN "exited" ELSE "running",
             log_written |-> FALSE]
      [] OTHER ->
            [raised |-> FALSE, returned |-> TRUE, value |-> FALSE,
             process |-> "none", log_written |-> FALSE]

\* Lines 70-79: on win32 a listed openscad.exe is killed by name and the
\* call returns False; an exception of tasklist or taskkill is caught by the
\* handler of line 91.
StillRunningCheck(platform, lingering, tasklist_ok) ==
    IF platform # "win32"
    THEN [value |-> TRUE, killed_by_name |-> FALSE, process |-> "exited"]
    ELSE IF ~tasklist_ok
         THEN [value |-> FALSE, killed_by_name |-> FALSE,
               process |-> IF lingering THEN "running" ELSE "exited"]
         ELSE IF lingering
              THEN [value |-> FALSE, killed_by_name |-> TRUE, process |-> "killed"]
              ELSE [value |-> TRUE, killed_by_name |-> FALSE, process |-> "exited"]

\* Lines 37-59: the executable of the command.
CommandOf(platform, openscad_path) ==
    IF platform = "win32" THEN "powershell"
    ELSE IF openscad_path = None THEN "openscad" ELSE openscad_path[1]

RunInit ==
    /\ r_platform \in Platforms
    /\ r_openscad_path \in {None, Some("/opt/openscad")}
    /\ r_command = <<>>
    /\ r_outcome \in RunOutcomes
    /\ r_lingering \in BOOLEAN
    /\ r_tasklist_ok \in BOOLEAN
    /\ r_orphan_exits \in BOOLEAN
    \* the three win32 circumstances are fixed off win32
    /\ r_platform # "win32" => ~r_lingering /\ ~r_tasklist_ok /\ ~r_orphan_exits
    /\ r_pc = "start"
    /\ r_result = <<>>
    /\ r_process = "none"
    /\ r_killed_by_name = FALSE
    /\ r_log_written = FALSE

\* subprocess.run(command, check=True, capture_output=True, timeout=timeout)
RunCommand ==
    /\ r_pc = "start"
    /\ LET out == RunSubprocess(r_platform, r_outcome, r_orphan_exits)
       IN /\ r_pc' = IF out.raised THEN "raised"
                     ELSE IF out.returned THEN "returned" ELSE "ran"
          /\ r_result' = IF out.returned THEN Some(out.value) ELSE <<>>
          /\ r_process' = out.process
          /\ r_log_written' = out.log_written
    /\ r_command' = Some(CommandOf(r_platform, r_openscad_path))
    /\ UNCHANGED <<r_platform, r_openscad_path, r_outcome, r_lingering, r_tasklist_ok,
                   r_orphan_exits, r_killed_by_name>>
    /\ UNCHANGED runRest

\* The check for a renderer that is still running, and the return.
CheckStillRunning ==
    /\ r_pc = "ran"
    /\ LET chk == StillRunningCheck(r_platform, r_lingering, r_tasklist_ok)
       IN /\ r_result' = Some(chk.value)
          /\ r_killed_by_name' = chk.killed_by_name
          /\ r_process' = chk.process
    /\ r_pc' = "returned"
    /\ UNCHANGED <<r_platform, r_openscad_path, r_command, r_outcome, r_lingering,
                   r_tasklist_ok, r_orphan_exits, r_log_written>>
    /\ UNCHANGED runRest

RunNext ==
    \/ RunCommand
    \/ CheckStillRunning

InitRun == RunInit /\ ConvUnused /\ VerIdle /\ BatchIdle /\ CliIdle /\ LocIdle /\ LogIdle /\ MetIdle /\ MainIdle /\ TmpIdle

SpecRun == InitRun /\ [][RunNext]_vars

(***************************************************************************)
(* get_openscad_path                                                       *)
(*                                                                         *)
(* A version string is the sequence of its characters, a digit as its      *)
(* value and "." as -1, so that the order of the characters is that of     *)
(* their codes.  A candidate is [path, exists, runs, version]: whether the *)
(* path exists, whether `--info` runs with exit code 0, and the version    *)
(* token its output carries (<<>> when it carries none).  The log file     *)
(* version_check.log lies in the working directory and may be there before *)
(* the call.                                                               *)
(***************************************************************************)
MaxCandidates == 2

OlderVersion == <<2, 0, 2, 4, -1, 1, 2, -1, 3, 1>>
RequiredVersion == <<2, 0, 2, 5, -1, 0, 2, -1, 1, 9>>
NewerVersion == <<2, 0, 2, 5, -1, 0, 3, -1, 0, 1>>

VersionTokens == {None, Some(OlderVersion), Some(RequiredVersion), Some(NewerVersion)}

\* a < b for Python strings
RECURSIVE StrLess(_, _)
StrLess(a, b) ==
    IF b = <<>> THEN FALSE
    ELSE IF a = <<>> THEN TRUE
    ELSE IF a[1] # b[1] THEN a[1] < b[1]
    ELSE StrLess(Tail(a), Tail(b))

CandidatePaths == <<"/usr/bin/openscad", "/usr/local/bin/openscad", "/opt/openscad">>

\* The states of the candidate at position i: a missing one has nothing else
\* to tell.
CandidateStates(i) ==
    {[path |-> CandidatePaths[i], exists |-> FALSE, runs |-> FALSE, version |-> None]}
    \cup [path : {CandidatePaths[i]}, exists : {TRUE}, runs : BOOLEAN,
          version : VersionTokens]

CandidateLists ==
    UNION {{c \in [1..n -> UNION {CandidateStates(i) : i \in 1..n}] :
               \A i \in 1..n : c[i] \in CandidateStates(i)} :
           n \in 0..MaxCandidates}

LogStates == {None} \cup {Some([token |-> t]) : t \in VersionTokens}

\* check_version(path) (lines 117-177): run `--info` with the log file
\* "version_check.log", read that file, take the version token from it and
\* compare it to the required version.  run_openscad fills the log file on
\* win32 only; an absent file makes open() raise, which is caught.
CheckVersion(platform, candidate, nightly, log, required) ==
    LET run == RunSubprocess(platform, IF candidate.runs THEN "exit0" ELSE "nonzero",
                             FALSE)
        log_after == IF run.log_written THEN Some([token |-> candidate.version])
                     ELSE log
    IN IF ~run.value
       THEN [valid |-> FALSE, log |-> log_after, token |-> None]
       ELSE IF log_after = None
       THEN [valid |-> FALSE, log |-> log_after, token |-> None]
       ELSE LET version_match == log_after[1].token
            IN IF platform = "win32" /\ ~nightly
               THEN [valid |-> FALSE, log |-> log_after, token |-> None]
               ELSE IF version_match = None
               THEN [valid |-> FALSE, log |-> log_after, token |-> None]
               ELSE [valid |-> ~StrLess(version_match[1], required),
                     log |-> log_after, token |-> version_match]

LocInit ==
    /\ l_platform \in Platforms
    /\ l_candidates \in CandidateLists
    /\ l_win \in [exe_exists : BOOLEAN, nightly : BOOLEAN]
    \* win32 has the one path base/openscad.com; its circumstances are fixed
    \* elsewhere
    /\ l_platform = "win32" => Len(l_candidates) = 1
    /\ l_platform # "win32" => l_win = [exe_exists |-> FALSE, nightly |-> FALSE]
    /\ l_log \in LogStates
    /\ l_pc = "start"
    /\ l_idx = 0
    /\ l_result = <<>>
    /\ l_gate_token = <<>>

\* Lines 180-202: win32.
LocateWin32 ==
    /\ l_pc = "start"
    /\ l_platform = "win32"
    /\ LET com == l_candidates[1]
       IN IF ~(l_win.exe_exists /\ com.exists)
          THEN /\ l_pc' = "raised"
               /\ UNCHANGED <<l_log, l_result, l_gate_token>>
          ELSE LET cv == CheckVersion(l_platform, com, l_win.nightly, l_log,
                                      RequiredVersion)
               IN /\ l_log' = cv.log
                  /\ l_gate_token' = cv.token
                  /\ l_pc' = IF cv.valid THEN "returned" ELSE "raised"
                  /\ l_result' = IF cv.valid THEN Some(com.path) ELSE <<>>
    /\ UNCHANGED <<l_platform, l_candidates, l_win, l_idx>>
    /\ UNCHANGED locRest

\* Lines 205-211: one candidate of the list.
ProbeCandidate ==
    /\ l_pc = "start"
    /\ l_platform # "win32"
    /\ l_idx < Len(l_candidates)
    /\ LET candidate == l_candidates[l_idx + 1]
       IN IF ~candidate.exists
          THEN /\ l_idx' = l_idx + 1
               /\ UNCHANGED <<l_log, l_pc, l_result, l_gate_token>>
          ELSE LET cv == CheckVersion(l_platform, candidate, FALSE, l_log,
                                      RequiredVersion)
               IN /\ l_log' = cv.log
                  /\ l_gate_token' = cv.token
                  /\ IF cv.valid
                     THEN /\ l_pc' = "returned"
                          /\ l_result' = Some(candidate.path)
                          /\ UNCHANGED l_idx
                     ELSE /\ l_idx' = l_idx + 1
                          /\ UNCHANGED <<l_pc, l_result>>
    /\ UNCHANGED <<l_platform, l_candidates, l_win>>
    /\ UNCHANGED locRest

\* Lines 213-217: no candidate was accepted.
RaiseNotFound ==
    /\ l_pc = "start"
    /\ l_platform # "win32"
    /\ l_idx = Len(l_candidates)
    /\ l_pc' = "raised"
    /\ UNCHANGED <<l_platform, l_candidates, l_win, l_log, l_idx, l_result, l_gate_token>>
    /\ UNCHANGED locRest

LocNext ==
    \/ LocateWin32
    \/ ProbeCandidate
    \/ RaiseNotFound

InitLocate == LocInit /\ ConvUnused /\ VerIdle /\ BatchIdle /\ CliIdle /\ RunIdle /\ LogIdle /\ MetIdle /\ MainIdle /\ TmpIdle

SpecLocate == InitLocate /\ [][LocNext]_vars

(***************************************************************************)
(* Concurrent calls of calculate_scad_metrics                              *)
(*                                                                         *)
(* Each caller measures an artifact of its own: it locates the renderer    *)
(* (get_openscad_path, whose version check runs the renderer with the log  *)
(* file "version_check.log" of the working directory and then reads that   *)
(* file), then runs the renderer on a metrics file with the log file       *)
(* metrics.log of a fresh temporary directory.  A log path is [dir, name]. *)
(***************************************************************************)
NumCallers == 2

Callers == 1..NumCallers

WorkingDirs == {"cwd_a", "cwd_b"}

\* log_file = "version_check.log", relative to the working directory
VersionLog(cwd) == [dir |-> cwd, name |-> "version_check.log"]

\* str(Path(temp_dir) / "metrics.log"): mkdtemp never returns a directory
\* that exists.
MetricsLog(n) == [dir |-> <<"tmp", n>>, name |-> "metrics.log"]

LogInit ==
    /\ w_platform \in Platforms
    /\ w_cwd \in [Callers -> WorkingDirs]
    /\ w_pc = [w \in Callers |-> "start"]
    /\ w_log = [w \in Callers |-> None]
    /\ w_files = <<>>
    /\ w_read = [w \in Callers |-> None]
    /\ w_tmp_count = 0

\* check_version calls run_openscad("Version check", ['--info'], log_file, path).
StartVersionCheck(w) ==
    /\ w_pc[w] = "start"
    /\ w_pc' = [w_pc EXCEPT ![w] = "version_run"]
    /\ w_log' = [w_log EXCEPT ![w] = Some(VersionLog(w_cwd[w]))]
    /\ UNCHANGED <<w_platform, w_cwd, w_files, w_read, w_tmp_count>>
    /\ UNCHANGED logRest

\* run_openscad returns: on win32 the command has written the log file.
FinishVersionRun(w) ==
    /\ w_pc[w] = "version_run"
    /\ w_files' = IF RunSubprocess(w_platform, "exit0", FALSE).log_written
                  THEN [p \in DOMAIN w_files \cup {w_log[w][1]} |->
                           IF p = w_log[w][1] THEN w ELSE w_files[p]]
                  ELSE w_files
    /\ w_pc' = [w_pc EXCEPT ![w] = "version_read"]
    /\ UNCHANGED <<w_platform, w_cwd, w_log, w_read, w_tmp_count>>
    /\ UNCHANGED logRest

\* check_version reads the log file (lines 136-137).
ReadVersionLog(w) ==
    /\ w_pc[w] = "version_read"
    /\ w_read' = [w_read EXCEPT ![w] =
                     IF w_log[w][1] \in DOMAIN w_files
                     THEN Some(w_files[w_log[w][1]]) ELSE None]
    /\ w_log' = [w_log EXCEPT ![w] = None]
    /\ w_pc' = [w_pc EXCEPT ![w] = "located"]
    /\ UNCHANGED <<w_platform, w_cwd, w_files, w_tmp_count>>
    /\ UNCHANGED logRest

\* calculate_scad_metrics creates its temporary directory and calls
\* run_openscad with the log file in it (metrics.py lines 105-126).
StartMetricsRun(w) ==
    /\ w_pc[w] = "located"
    /\ w_tmp_count' = w_tmp_count + 1
    /\ w_log' = [w_log EXCEPT ![w] = Some(MetricsLog(w_tmp_count + 1))]
    /\ w_pc' = [w_pc EXCEPT ![w] = "metrics_run"]
    /\ UNCHANGED <<w_platform, w_cwd, w_files, w_read>>
    /\ UNCHANGED logRest

\* run_openscad returns and the temporary directory is removed.
FinishMetricsRun(w) ==
    /\ w_pc[w] = "metrics_run"
    /\ w_log' = [w_log EXCEPT ![w] = None]
    /\ w_pc' = [w_pc EXCEPT ![w] = "done"]
    /\ UNCHANGED <<w_platform, w_cwd, w_files, w_read, w_tmp_count>>
    /\ UNCHANGED logRest

LogNext ==
    \E w \in Callers :
        \/ StartVersionCheck(w)
        \/ FinishVersionRun(w)
        \/ ReadVersionLog(w)
        \/ StartMetricsRun(w)
        \/ FinishMetricsRun(w)

InitLog == LogInit /\ ConvUnused /\ VerIdle /\ BatchIdle /\ CliIdle /\ RunIdle /\ LocIdle /\ MetIdle /\ MainIdle /\ TmpIdle

SpecLog == InitLog /\ [][LogNext]_vars

(***************************************************************************)
(* calculate_scad_metrics                                                  *)
(*                                                                         *)
(* The echo file is modelled by the text that follows each label: a        *)
(* sequence of characters for VOLUME= and AREA=, three bracketed           *)
(* components for BBOX_MIN= and BBOX_MAX=, <<>> for a label that is not    *)
(* in the file.  "1" stands for a digit and "x" for a character outside    *)
(* the class [\d.e+-].                                                      *)
(***************************************************************************)
MaxTokenLen == 2

Alphabet == {"1", ".", "-", "e", "x"}

ClassChars == {"1", ".", "-", "e"}

Texts == UNION {[1..n -> Alphabet] : n \in 0..MaxTokenLen}

\* A number, a run of class characters that is no number, and a text the
\* expressions do not match: what the area and a bounding-box component are
\* drawn from.
BBoxComponents == {<<"1">>, <<".">>, <<"x">>}

BBoxTexts == {None} \cup {Some(<<<<"1">>, c, <<"1">>>>) : c \in BBoxComponents}

EchoContents ==
    [volume : {None} \cup {Some(t) : t \in Texts},
     area : {None} \cup {Some(t) : t \in BBoxComponents},
     bbox_min : BBoxTexts,
     bbox_max : BBoxTexts]

\* ([\d.e+-]+) is greedy: the longest run of class characters at the start.
RECURSIVE ClassPrefix(_)
ClassPrefix(text) ==
    IF text = <<>> \/ Head(text) \notin ClassChars THEN <<>>
    ELSE <<Head(text)>> \o ClassPrefix(Tail(text))

\* The grammar of float(): [sign] (digits ["." [digits]] | "." digits)
\* [e [sign] digits].  FloatStep is the automaton that reads it.
FloatStep(state, ch) ==
    CASE state = "start" /\ ch = "-" -> "sign"
      [] state \in {"start", "sign", "int"} /\ ch = "1" -> "int"
      [] state \in {"start", "sign"} /\ ch = "." -> "dot"
      [] state = "int" /\ ch = "." -> "frac"
      [] state \in {"dot", "frac"} /\ ch = "1" -> "frac"
      [] state \in {"int", "frac"} /\ ch = "e" -> "e"
      [] state = "e" /\ ch = "-" -> "esign"
      [] state \in {"e", "esign", "exp"} /\ ch = "1" -> "exp"
      [] OTHER -> "bad"

RECURSIVE FloatRun(_, _)
FloatRun(state, token) ==
    IF token = <<>> THEN state
    ELSE FloatRun(FloatStep(state, Head(token)), Tail(token))

\* float(token) returns rather than raising ValueError.
IsFloat(token) == FloatRun("start", token) \in {"int", "frac", "exp"}

\* re.search(r'LABEL=\s*([\d.e+-]+)', content) and float(match.group(1)):
\* the value is kept as the token that float() converted.
LabelValue(text) ==
    IF text = None \/ ClassPrefix(text[1]) = <<>>
    THEN [raised |-> FALSE, value |-> None]
    ELSE IF IsFloat(ClassPrefix(text[1]))
         THEN [raised |-> FALSE, value |-> Some(ClassPrefix(text[1]))]
         ELSE [raised |-> TRUE, value |-> None]

\* The bounding-box expressions match when the three components between
\* the brackets and commas are non-empty runs of class characters.
BBoxMatch(text) ==
    /\ text # None
    /\ \A i \in 1..3 : text[1][i] # <<>> /\ ClassPrefix(text[1][i]) = text[1][i]

\* Lines 153-174.
BBoxValue(bbox_min, bbox_max) ==
    IF ~(BBoxMatch(bbox_min) /\ BBoxMatch(bbox_max))
    THEN [raised |-> FALSE, value |-> None]
    ELSE IF \A i \in 1..3 : IsFloat(bbox_min[1][i]) /\ IsFloat(bbox_max[1][i])
         THEN [raised |-> FALSE,
               value |-> Some([min |-> bbox_min[1], max |-> bbox_max[1]])]
         ELSE [raised |-> TRUE, value |-> None]

NoMetrics == [volume |-> None, surface_area |-> None, bounding_box |-> None]

\* Lines 98-176.
ScadMetrics(scad_exists, locate_ok, success, echo) ==
    IF ~scad_exists \/ ~locate_ok
    THEN [raised |-> TRUE, error |-> "FileNotFoundError",
          called |-> FALSE, metrics |-> None]
    ELSE IF ~success
    THEN [raised |-> TRUE, error |-> "RuntimeError",
          called |-> TRUE, metrics |-> None]
    ELSE IF echo = None
    THEN [raised |-> FALSE, error |-> "none",
          called |-> TRUE, metrics |-> Some(NoMetrics)]
    ELSE IF \/ LabelValue(echo[1].volume).raised
            \/ LabelValue(echo[1].area).raised
            \/ BBoxValue(echo[1].bbox_min, echo[1].bbox_max).raised
    THEN [raised |-> TRUE, error |-> "ValueError",
          called |-> TRUE, metrics |-> None]
    ELSE [raised |-> FALSE, error |-> "none", called |-> TRUE,
          metrics |-> Some(
             [volume |-> LabelValue(echo[1].volume).value,
              surface_area |-> LabelValue(echo[1].area).value,
              bounding_box |->
                  BBoxValue(echo[1].bbox_min, echo[1].bbox_max).value])]

\* What run_openscad returns for an outcome of the command.
RunOpenscad(platform, outcome, lingering) ==
    RunSubprocess(platform, outcome, FALSE).value
        /\ StillRunningCheck(platform, lingering, TRUE).value

MetInit ==
    /\ m_scad_exists \in BOOLEAN
    /\ m_echo \in {None} \cup {Some(c) : c \in EchoContents}
    /\ m_pc = "start"
    /\ m_error = "none"
    /\ m_success = None
    /\ m_metrics = None

CalculateScadMetrics ==
    /\ m_pc = "start"
    /\ \E locate_ok \in BOOLEAN, platform \in Platforms,
          outcome \in RunOutcomes, lingering \in BOOLEAN :
          LET success == RunOpenscad(platform, outcome, lingering)
              r == ScadMetrics(m_scad_exists, locate_ok, success, m_echo)
          IN /\ m_pc' = IF r.raised THEN "raised" ELSE "returned"
             /\ m_error' = r.error
             /\ m_success' = IF r.called THEN Some(success) ELSE None
             /\ m_metrics' = r.metrics
    /\ UNCHANGED <<m_scad_exists, m_echo>>
    /\ UNCHANGED metRest

MetNext == CalculateScadMetrics

InitMetrics ==
    MetInit /\ ConvUnused /\ VerIdle /\ BatchIdle /\ CliIdle /\ RunIdle /\ LocIdle /\ LogIdle /\ MainIdle /\ TmpIdle

SpecMetrics == InitMetrics /\ [][MetNext]_vars

(***************************************************************************)
(* The command-line program                                                *)
(*                                                                         *)
(* e_argv is sys.argv without the program name.  The process is started    *)
(* through the console script stl2scad (cli:main under sys.exit), through  *)
(* python -m stl2scad.cli, or through the package's __main__ (python -m    *)
(* stl2scad and the script stl2scad-gui).  What the library calls and the  *)
(* files do is the environment's choice.                                   *)
(***************************************************************************)
MaxPositionals == 3

MaxOptions == 2

EntryPoints == {"console_script", "cli_module", "package_main"}

CommandWords == {"convert", "verify", "batch", "bogus"}

Positionals == {"in.stl", "out.scad"}

Options == {"--debug", "--tolerance=0.001", "--tolerance=abc", "--visualize"}

\* The arguments after the command word: positional arguments, then options.
ArgLists ==
    {p \o o : p \in UNION {[1..n -> Positionals] : n \in 0..MaxPositionals},
              o \in UNION {[1..n -> Options] : n \in 0..MaxOptions}}

\* arg.startswith('--')
IsOption(arg) == arg \in Options

\* arg.startswith('--tolerance=')
IsToleranceOption(arg) == arg \in {"--tolerance=0.001", "--tolerance=abc"}

\* float(arg.split('=')[1]) and the test tolerance <= 0: <<>> when ValueError
\* is raised.
ToleranceValue(arg) ==
    IF arg = "--tolerance=0.001" THEN Some([num |-> 1, den |-> 1000]) ELSE None

\* argv[i] and argv[i:] of Python, whose indices start at 0.
PyAt(argv, i) == argv[i + 1]

PyFrom(argv, i) == SubSeq(argv, i + 1, Len(argv))

\* The tolerance left by the loop of lines 74-86: that of the last option.
RECURSIVE LastTolerance(_, _)
LastTolerance(args, tol) ==
    IF args = <<>> THEN tol
    ELSE LastTolerance(Tail(args),
                       IF IsToleranceOption(Head(args))
                          /\ ToleranceValue(Head(args)) # None
                       THEN ToleranceValue(Head(args))[1] ELSE tol)

\* parse_convert_args: usage() and an invalid tolerance leave by sys.exit(1).
ParseConvertArgs(argv) ==
    IF Len(argv) < 3
    THEN [exit |-> "usage"]
    ELSE IF \E i \in 4..Len(argv) :
               IsToleranceOption(argv[i]) /\ ToleranceValue(argv[i]) = None
    THEN [exit |-> "bad_option"]
    ELSE [exit |-> "none",
          input_file |-> PyAt(argv, 1),
          output_file |-> PyAt(argv, 2),
          tolerance |-> LastTolerance(PyFrom(argv, 3), TolDefault),
          debug |-> \E i \in 4..Len(argv) : argv[i] = "--debug"]

\* parse_verify_args (the tolerance options of verify are not in ArgPool).
ParseVerifyArgs(argv) ==
    IF Len(argv) < 2
    THEN [exit |-> "usage"]
    ELSE LET scad == IF Len(argv) > 2 /\ ~IsOption(PyAt(argv, 2))
                     THEN Some(PyAt(argv, 2)) ELSE None
             args_to_check == IF scad = None
                              THEN PyFrom(argv, 2) ELSE PyFrom(argv, 3)
         IN [exit |-> "none",
             input_file |-> PyAt(argv, 1),
             output_file |-> scad,
             visualize |-> \E i \in 1..Len(args_to_check) :
                              args_to_check[i] = "--visualize"]

\* parse_batch_args.
ParseBatchArgs(argv) ==
    IF Len(argv) < 3
    THEN [exit |-> "usage"]
    ELSE [exit |-> "none",
          input_dir |-> PyAt(argv, 1),
          output_dir |-> PyAt(argv, 2)]

ConvertOutcomes ==
    {"ok", "FileNotFoundError", "STLValidationError", "PermissionError",
     "RuntimeError"}

VerifyOutcomes == {"passed", "failed", "FileNotFoundError", "RuntimeError"}

FileOutcomes == {"passed", "failed", "error"}

\* The results dict of the batch loop for the outcomes of the files.
BatchResults(kinds) ==
    {[name |-> i, passed |-> kinds[i] = "passed",
      error |-> IF kinds[i] = "error" THEN "raised" ELSE "none"] :
        i \in 1..Len(kinds)}

MainInit ==
    /\ e_entry \in EntryPoints
    /\ e_argv \in {<<>>} \cup {<<c>> \o a : c \in CommandWords, a \in ArgLists}
    \* __main__ starts the GUI when there is no argument
    /\ e_entry = "package_main" => e_argv # <<>>
    /\ e_pc = "start"
    /\ e_call = None
    /\ e_events = {}
    /\ e_return = None
    /\ e_exit = None

\* cli.main, lines 531-544.
MainDispatch ==
    /\ e_pc = "start"
    /\ IF e_argv = <<>> \/ e_argv[1] \notin {"convert", "verify", "batch"}
       THEN /\ e_pc' = "exited"
            /\ e_exit' = Some(1)
            /\ e_events' = {"usage"}
       ELSE /\ e_pc' = e_argv[1]
            /\ UNCHANGED <<e_exit, e_events>>
    /\ UNCHANGED <<e_entry, e_argv, e_call, e_return>>
    /\ UNCHANGED mainRest

\* convert_command(sys.argv[2:]).
ConvertCommand ==
    /\ e_pc = "convert"
    /\ LET args == ParseConvertArgs(PyFrom(e_argv, 1))
       IN IF args.exit # "none"
          THEN /\ e_pc' = "exited"
               /\ e_exit' = Some(1)
               /\ e_events' = {args.exit}
               /\ UNCHANGED <<e_call, e_return>>
          ELSE \E outcome \in ConvertOutcomes :
                  /\ e_call' = Some([fn |-> "stl2scad",
                                     input_file |-> args.input_file,
                                     output_file |-> args.output_file,
                                     tolerance |-> args.tolerance,
                                     debug |-> args.debug])
                  /\ e_events' = IF outcome = "ok" THEN {"converted"}
                                 ELSE {"op_error"}
                  /\ e_return' = Some(IF outcome = "ok" THEN 0 ELSE 1)
                  /\ e_pc' = "returned"
                  /\ UNCHANGED e_exit
    /\ UNCHANGED <<e_entry, e_argv>>
    /\ UNCHANGED mainRest

\* verify_command(sys.argv[2:]).
VerifyCommand ==
    /\ e_pc = "verify"
    /\ LET args == ParseVerifyArgs(PyFrom(e_argv, 1))
       IN IF args.exit # "none"
          THEN /\ e_pc' = "exited"
               /\ e_exit' = Some(1)
               /\ e_events' = {args.exit}
               /\ UNCHANGED <<e_call, e_return>>
          ELSE \E outcome \in VerifyOutcomes, vis_ok \in BOOLEAN :
                  LET raised == \/ outcome \notin {"passed", "failed"}
                                \/ (args.visualize /\ ~vis_ok)
                  IN /\ e_call' = Some([fn |-> "verify_conversion",
                                        input_file |-> args.input_file,
                                        output_file |-> args.output_file])
                     /\ e_events' =
                           (IF outcome = "passed" THEN {"verified"} ELSE {})
                           \cup (IF outcome = "failed"
                                 THEN {"out_of_tolerance"} ELSE {})
                           \cup (IF raised THEN {"op_error"} ELSE {})
                     /\ e_return' = Some(IF raised THEN 1
                                         ELSE IF outcome = "passed" THEN 0 ELSE 2)
                     /\ e_pc' = "returned"
                     /\ UNCHANGED e_exit
    /\ UNCHANGED <<e_entry, e_argv>>
    /\ UNCHANGED mainRest

\* batch_command(sys.argv[2:]).
BatchCommand ==
    /\ e_pc = "batch"
    /\ LET args == ParseBatchArgs(PyFrom(e_argv, 1))
       IN IF args.exit # "none"
          THEN /\ e_pc' = "exited"
               /\ e_exit' = Some(1)
               /\ e_events' = {args.exit}
               /\ UNCHANGED <<e_call, e_return>>
          ELSE \E dir_ok \in BOOLEAN, raised \in BOOLEAN,
                  kinds \in UNION {[1..n -> FileOutcomes] : n \in 0..2} :
                  LET stopped == ~dir_ok \/ kinds = <<>> \/ raised
                      failed == CliSummary(BatchResults(kinds)).failed
                  IN /\ e_call' = Some([fn |-> "batch",
                                        input_dir |-> args.input_dir,
                                        output_dir |-> args.output_dir])
                     /\ e_events' =
                           IF stopped THEN {"op_error"}
                           ELSE {"verified"}
                                \cup (IF \E i \in 1..Len(kinds) : kinds[i] = "failed"
                                      THEN {"out_of_tolerance"} ELSE {})
                                \cup (IF \E i \in 1..Len(kinds) : kinds[i] = "error"
                                      THEN {"op_error"} ELSE {})
                     /\ e_return' = Some(IF stopped THEN 1
                                         ELSE IF failed = 0 THEN 0 ELSE 2)
                     /\ e_pc' = "returned"
                     /\ UNCHANGED e_exit
    /\ UNCHANGED <<e_entry, e_argv>>
    /\ UNCHANGED mainRest

\* The process ends: the console script and cli.py pass the value of main to
\* sys.exit; __main__ calls cli_main() and drops its value.
ProcessExit ==
    /\ e_pc = "returned"
    /\ e_exit' = IF e_entry = "package_main" THEN Some(0) ELSE e_return
    /\ e_pc' = "exited"
    /\ UNCHANGED <<e_entry, e_argv, e_call, e_events, e_return>>
    /\ UNCHANGED mainRest

MainNext ==
    \/ MainDispatch
    \/ ConvertCommand
    \/ VerifyCommand
    \/ BatchCommand
    \/ ProcessExit

InitMain ==
    MainInit /\ ConvUnused /\ VerIdle /\ BatchIdle /\ CliIdle /\ RunIdle /\ LocIdle /\ LogIdle /\ MetIdle /\ TmpIdle

SpecMain == InitMain /\ [][MainNext]_vars

(***************************************************************************)
(* verify_command, verify_conversion and the files they leave              *)
(*                                                                         *)
(* A path is a string.  verify_conversion without a SCAD file converts     *)
(* into a temporary directory, inside a with block that it returns from.   *)
(***************************************************************************)
StlInputs == {"a.stl", "models/b.stl"}

ScadOutputs == {"a.scad", "out/b.scad"}

\* Path(temp_dir) / f"{stl_path.stem}.scad"
TempScad(temp_dir, stl) ==
    temp_dir \o "/" \o (IF stl = "a.stl" THEN "a" ELSE "b") \o ".scad"

\* report_dir / f"{report_base}_verification.json"
VerifyReport(stl, output) ==
    (IF output # None
     THEN (IF output[1] = "a.scad" THEN "" ELSE "out/")
     ELSE (IF stl = "a.stl" THEN "" ELSE "models/"))
    \o (IF stl = "a.stl" THEN "a" ELSE "b") \o "_verification.json"

\* The files under a directory that TemporaryDirectory removes on exit.
Under(dir, fs) == {f \in fs : \E stl \in StlInputs : f = TempScad(dir, stl)}

TmpInit ==
    /\ t_input \in StlInputs
    /\ t_output \in {None} \cup {Some(p) : p \in ScadOutputs}
    /\ t_visualize \in BOOLEAN
    /\ t_fs \in SUBSET (StlInputs \cup ScadOutputs)
    /\ t_pc = "start"
    /\ t_temp_dir = None
    /\ t_result = None
    /\ t_vis = None

\* verify_conversion, lines 138-155: the STL file must exist; without a SCAD
\* file, stl2scad writes one into a new temporary directory.  An exception
\* leaves the with block, which removes the directory.
ConvertToTemp ==
    /\ t_pc = "start"
    /\ IF t_input \notin t_fs
       THEN /\ t_pc' = "raised"
            /\ UNCHANGED <<t_fs, t_temp_dir>>
       ELSE IF t_output # None
       THEN /\ t_pc' = "converted"
            /\ UNCHANGED <<t_fs, t_temp_dir>>
       ELSE \E converts \in BOOLEAN :
               IF converts
               THEN /\ t_temp_dir' = Some("tmp")
                    /\ t_fs' = t_fs \cup {TempScad("tmp", t_input)}
                    /\ t_pc' = "converted"
               ELSE /\ t_pc' = "raised"
                    /\ UNCHANGED <<t_fs, t_temp_dir>>
    /\ UNCHANGED <<t_input, t_output, t_visualize, t_result, t_vis>>
    /\ UNCHANGED tmpRest

\* verify_existing_conversion (lines 156/159 and 180-265) and the return of
\* verify_conversion: calculate_scad_metrics needs the SCAD file and a
\* renderer; leaving the with block removes the temporary directory.
VerifyAndReturn ==
    /\ t_pc = "converted"
    /\ LET scad_file == IF t_output = None THEN TempScad(t_temp_dir[1], t_input)
                        ELSE t_output[1]
           after == IF t_temp_dir = None THEN t_fs
                    ELSE t_fs \ Under(t_temp_dir[1], t_fs)
       IN \E measured \in BOOLEAN, verdict \in BOOLEAN :
             /\ IF scad_file \in t_fs /\ measured
                THEN /\ t_result' = Some([scad_file |-> scad_file, passed |-> verdict])
                     /\ t_pc' = "returned"
                ELSE /\ t_pc' = "raised"
                     /\ UNCHANGED t_result
             /\ t_fs' = after
             /\ t_temp_dir' = None
    /\ UNCHANGED <<t_input, t_output, t_visualize, t_vis>>
    /\ UNCHANGED tmpRest

\* verify_command, lines 357-362: the report is saved.
SaveReport ==
    /\ t_pc = "returned"
    /\ t_fs' = t_fs \cup {VerifyReport(t_input, t_output)}
    /\ t_pc' = "reported"
    /\ UNCHANGED <<t_input, t_output, t_visualize, t_temp_dir, t_result, t_vis>>
    /\ UNCHANGED tmpRest

\* verify_command, lines 364-375: the visualization step is handed
\* output_file, or result.scad_file when there is none.
Visualize ==
    /\ t_pc = "reported"
    /\ IF t_visualize
       THEN LET scad_file == IF t_output # None THEN t_output[1]
                             ELSE t_result[1].scad_file
            IN t_vis' = Some([scad_file |-> scad_file, found |-> scad_file \in t_fs])
       ELSE UNCHANGED t_vis
    /\ t_pc' = "done"
    /\ UNCHANGED <<t_input, t_output, t_visualize, t_fs, t_temp_dir, t_result>>
    /\ UNCHANGED tmpRest

TmpNext ==
    \/ ConvertToTemp
    \/ VerifyAndReturn
    \/ SaveReport
    \/ Visualize

InitTmp ==
    TmpInit /\ ConvUnused /\ VerIdle /\ BatchIdle /\ CliIdle /\ RunIdle /\ LocIdle /\ LogIdle /\ MetIdle /\ MainIdle

SpecTmp == InitTmp /\ [][TmpNext]_vars

(***************************************************************************)
(* Claims about validate_stl and stl2scad (specification Spec)             *)
(***************************************************************************)
\* The two corners of side j (0-based) of a triangle, as an unordered pair.
SidePair(tri, j) == {tri[j + 1], tri[((j + 1) % 3) + 1]}

\* The triangles that have the unordered pair e as a side.
TrianglesOn(vectors, e) ==
    {i \in 1..Len(vectors) : \E j \in 0..2 : SidePair(vectors[i], j) = e}

AllSidePairs(vectors) ==
    {SidePair(vectors[i], j) : i \in 1..Len(vectors), j \in 0..2}

\* The edges shared by more than two triangles.
OverShared(vectors) ==
    {e \in AllSidePairs(vectors) : Cardinality(TrianglesOn(vectors, e)) > 2}

\* C1: for every non-empty mesh validate_stl succeeds when every edge (an
\* unordered pair of exact coordinates) is shared by at most 2 triangles and
\* fails with a non-manifold error otherwise, and the count it reports is the
\* number of distinct edges shared by more than 2 triangles.
C1_ManifoldByTriangles ==
    (input_file.readable /\ pc # "start" /\ Len(input_file.triangles) > 0) =>
        IF OverShared(input_file.triangles) = {}
        THEN error # "non_manifold"
        ELSE /\ pc = "raised"
             /\ error = "non_manifold"
             /\ bad_edges = Cardinality(OverShared(input_file.triangles))

\* C2: validate_stl rejects a mesh of 0 triangles with a validation error, and
\* stl2scad then neither welds nor writes the output file.
C2_EmptyMeshRejected ==
    (input_file.readable /\ Len(input_file.triangles) = 0) =>
        /\ pc \in {"start", "raised"}
        /\ pc = "raised" => error = "empty"
        /\ points = <<>> /\ unique_points = <<>> /\ vertex_map = <<>>
        /\ final_points = <<>> /\ final_faces = <<>>
        /\ output_file = <<>>
        /\ stats = <<>>

C2_Witness ==
    /\ input_file.readable
    /\ Len(input_file.triangles) = 0
    /\ pc = "raised"
    /\ error = "empty"

\* C3: for a valid mesh and any tolerance the converter produces geometry
\* (welding, face construction and optimization raise nothing), every index
\* of every face is >= 0 and < the number of emitted points, and there are as
\* many faces as input triangles; the written artifact holds the same faces
\* and as many points.
C3_FaceInvariant ==
    /\ pc = "raised" => error \in {"load", "empty", "non_manifold"}
    /\ pc \in {"converted", "done"} =>
          /\ Len(final_faces) = Len(input_file.triangles)
          /\ \A k \in 1..Len(final_faces) : \A c \in 1..3 :
                final_faces[k][c] >= 0 /\ final_faces[k][c] < Len(final_points)
    /\ pc = "done" =>
          /\ output_file[1].faces = final_faces
          /\ Len(output_file[1].points) = Len(final_points)

\* A conversion in which welding merged corners of two or more triangles.
C3_Witness ==
    /\ pc = "done"
    /\ Len(final_faces) >= 2
    /\ Len(final_points) < Len(points)
    /\ \E k \in 1..Len(final_faces) : final_faces[k][1] = Len(final_points) - 1

\* C6: the unit cube of create_cube_stl (12 triangles over 8 corners with
\* coordinates 0 or 1), converted with tolerance 1e-6, gives
\* original_vertices = 36, deduplicated_vertices = 8 and faces = 12.
C6_UnitCubeStats ==
    (input_file.readable /\ input_file.triangles = CubeMesh /\ tolerance = TolDefault) =>
        /\ pc # "raised"
        /\ pc = "done" =>
              stats = <<[original_vertices |-> 36, deduplicated_vertices |-> 8, faces |-> 12]>>

C6_Witness ==
    /\ input_file.readable
    /\ input_file.triangles = CubeMesh
    /\ tolerance = TolDefault
    /\ pc = "done"
    /\ stats # <<>>

\* C23: for a valid mesh and a positive tolerance the stats that stl2scad
\* builds satisfy original_vertices = 3 x faces, faces > 0 and
\* 0 < deduplicated_vertices <= original_vertices.
C23_StatsInvariant ==
    (stats # <<>> /\ tolerance.num > 0) =>
        /\ stats[1].original_vertices = 3 * stats[1].faces
        /\ stats[1].faces > 0
        /\ 0 < stats[1].deduplicated_vertices
        /\ stats[1].deduplicated_vertices <= stats[1].original_vertices

\* Stats of a conversion of two or more triangles in which corners were welded.
C23_Witness ==
    /\ pc = "done"
    /\ tolerance.num > 0
    /\ stats # <<>>
    /\ stats[1].faces >= 2
    /\ stats[1].deduplicated_vertices < stats[1].original_vertices

\* C26: in a conversion every unique point that welding produced is referenced
\* by a face built from the index map, optimize_scad returns the points and
\* the faces it was given, and deduplicated_vertices is the number of welded
\* unique points.
C26_OptimizeIsNoOp ==
    pc \in {"converted", "debugging", "done"} =>
        /\ \A j \in 0..(Len(unique_points) - 1) :
              \E k \in 1..Len(faces) : \E c \in 1..3 : faces[k][c] = j
        /\ \A j \in 0..(Len(unique_points) - 1) :
              \E i \in 1..Len(vertex_map) : vertex_map[i] = j
        /\ final_points = unique_points
        /\ final_faces = faces
        /\ stats # <<>> => stats[1].deduplicated_vertices = Len(unique_points)

\* A finished conversion whose welding merged points and kept several.
C26_Witness ==
    /\ pc = "done"
    /\ Len(unique_points) >= 2
    /\ Len(unique_points) < Len(points)
    /\ stats[1].deduplicated_vertices = Len(unique_points)

\* C27: emitted face k holds, at corner c, the index of the unique point that
\* corner c of input triangle k was welded to, and the emitted point at that
\* index passes the closeness test against that corner; there is one face per
\* triangle, in the order of the triangles.
C27_OrderAndWinding ==
    pc \in {"converted", "debugging", "done"} =>
        /\ Len(final_faces) = Len(input_file.triangles)
        /\ \A k \in 1..Len(final_faces) : \A c \in 1..3 :
              /\ final_faces[k][c] = vertex_map[3 * (k - 1) + c]
              /\ AllClose(input_file.triangles[k][c],
                          final_points[final_faces[k][c] + 1], tolerance)
        /\ output_file # <<>> => output_file[1].faces = final_faces

\* A finished conversion of several triangles, one of them with three
\* different corners, in which a corner was welded to an earlier point.
C27_Witness ==
    /\ pc = "done"
    /\ Len(final_faces) >= 2
    /\ \E k \in 1..Len(final_faces) :
          Cardinality({final_faces[k][c] : c \in 1..3}) = 3
    /\ \E i \in 1..Len(points) : vertex_map[i] < i - 1

C15_BadInput ==
    \/ ~input_file.readable
    \/ input_file.triangles = <<>>
    \/ OverShared(input_file.triangles) # {}

\* C15: an unreadable file, an empty mesh and a non-manifold mesh make
\* stl2scad raise at the load and validation step; when it raises there,
\* nothing has been welded, the output file has not been opened and the
\* output path is as it was.
C15_NoOutputOnLoadFailure ==
    /\ (pc # "start" /\ C15_BadInput) =>
          /\ pc = "raised"
          /\ error \in {"load", "empty", "non_manifold"}
    /\ (pc = "raised" /\ error \in {"load", "empty", "non_manifold"}) =>
          /\ ~output_opened
          /\ output_file = <<>>
          /\ points = <<>>
          /\ unique_points = <<>>
          /\ vertex_map = <<>>
          /\ faces = <<>>
          /\ stats = <<>>

\* The fan of three triangles around one edge has been rejected with the
\* output path untouched.
C15_Witness ==
    /\ pc = "raised"
    /\ error = "non_manifold"
    /\ input_file.triangles = FanMesh
    /\ bad_edges = 1
    /\ ~output_opened
    /\ output_file = <<>>

(***************************************************************************)
(* Claims about find_unique_vertices (specification SpecWeld)              *)
(***************************************************************************)
PairwiseDistinct(pts) == \A i, j \in 1..Len(pts) : i # j => pts[i] # pts[j]

Chebyshev(a, b) ==
    LET d == [k \in 1..3 |-> Abs(a[k] - b[k])]
    IN IF d[1] >= d[2] /\ d[1] >= d[3] THEN d[1]
       ELSE IF d[2] >= d[3] THEN d[2] ELSE d[3]

SquaredDistance(a, b) ==
    (a[1] - b[1]) * (a[1] - b[1]) + (a[2] - b[2]) * (a[2] - b[2])
        + (a[3] - b[3]) * (a[3] - b[3])

\* The tolerance as a length in coordinate units (exact for Tolerances).
TolUnits(tol) == (tol.num * One) \div tol.den

\* tol < the Euclidean distance of a and b.  The distance lies between the
\* largest component difference m and 2m, which settles the comparison
\* without squaring whenever the squares would be large.
TolBelowDistance(tol, a, b) ==
    LET m == Chebyshev(a, b)
        t == TolUnits(tol)
    IN \/ m > t
       \/ /\ 2 * m > t
          /\ SquaredDistance(a, b) > t * t

TolLeq(ta, tb) == ta.num * tb.den <= tb.num * ta.den

\* C4: welding a sequence of pairwise distinct points with a tolerance smaller
\* than their minimum pairwise distance returns the input as the unique list
\* and the identity as the index map.
C4_IdempotentBelowMinDistance ==
    (/\ pc = "weld_done"
     /\ PairwiseDistinct(points)
     /\ \A i, j \in 1..Len(points) :
           i < j => TolBelowDistance(tolerance, points[i], points[j])) =>
        /\ unique_points = points
        /\ vertex_map = [i \in 1..Len(points) |-> i - 1]

\* C5 as claimed: for tol_a <= tol_b the number of unique points at tol_a is
\* at least the number at tol_b.
C5_CountMonotone ==
    pc = "weld_done" =>
        \A tb \in Tolerances :
            TolLeq(tolerance, tb) =>
                Len(unique_points) >= Len(FindUniqueVertices(points, tb).unique)

\* a passes numpy.allclose against b at rtol = tol: in every component
\* |a - b| - atol <= rtol * |b| (the left side is an integer).
C5_Close(a, b, tol) ==
    \A k \in 1..3 : Abs(a[k] - b[k]) - Atol <= (tol.num * Abs(b[k])) \div tol.den

\* Closeness at tol is symmetric and transitive on the points of the sequence.
C5_ClustersSeparate(pts, tol) ==
    /\ \A a, b \in Range(pts) : C5_Close(a, b, tol) => C5_Close(b, a, tol)
    /\ \A a, b, c \in Range(pts) :
          C5_Close(a, b, tol) /\ C5_Close(b, c, tol) => C5_Close(a, c, tol)

\* C5 amended: for tol_a <= tol_b the number of unique points at tol_a is at
\* least the number at tol_b whenever closeness at tol_b is symmetric and
\* transitive on the points of the sequence.
C5_CountMonotoneSeparated ==
    pc = "weld_done" =>
        \A tb \in Tolerances :
            (TolLeq(tolerance, tb) /\ C5_ClustersSeparate(points, tb)) =>
                Len(unique_points) >= Len(FindUniqueVertices(points, tb).unique)

\* A sequence that welds further at a larger tolerance at which its clusters
\* are separate.
C5_Witness ==
    /\ pc = "weld_done"
    /\ Len(points) >= 3
    /\ \E tb \in Tolerances :
          /\ TolLeq(tolerance, tb) /\ tolerance # tb
          /\ C5_ClustersSeparate(points, tb)
          /\ Len(unique_points) > Len(FindUniqueVertices(points, tb).unique)
          /\ Len(unique_points) < Len(points)

\* The number of unique points accumulated from the points before point i.
C24_CountBefore(i) == Cardinality({vertex_map[k] : k \in 1..(i - 1)})

\* The unique points accumulated before point i that point i is close to.
C24_Qualifying(i) ==
    {j \in 1..C24_CountBefore(i) : AllClose(points[i], unique_points[j], tolerance)}

C24_Min(S) == CHOOSE m \in S : \A x \in S : m <= x

\* C24: find_unique_vertices maps point i to the earliest unique point, among
\* those accumulated from the points before i, that passes the closeness test
\* against it; with none, point i becomes the next unique point and is mapped
\* to the unique count so far; and the map entries of a prefix of the input
\* are those of the whole input.
C24_FirstMatchWelding ==
    pc = "weld_done" =>
        /\ Len(vertex_map) = Len(points)
        /\ \A i \in 1..Len(points) :
              /\ IF C24_Qualifying(i) # {}
                 THEN vertex_map[i] = C24_Min(C24_Qualifying(i)) - 1
                 ELSE /\ vertex_map[i] = C24_CountBefore(i)
                      /\ unique_points[C24_CountBefore(i) + 1] = points[i]
              /\ FindUniqueVertices(SubSeq(points, 1, i), tolerance).map
                    = SubSeq(vertex_map, 1, i)

\* A point that qualifies for two clusters.
C24_Witness ==
    /\ pc = "weld_done"
    /\ \E i \in 1..Len(points) : Cardinality(C24_Qualifying(i)) >= 2

\* |a - b| <= tolerance * max(|a|, |b|) in every component (the left side is
\* an integer, so the bound can be floored).
C25_RelativeClose(a, b, tol) ==
    \A k \in 1..3 :
        Abs(a[k] - b[k]) <=
            (tol.num * (IF Abs(a[k]) >= Abs(b[k]) THEN Abs(a[k]) ELSE Abs(b[k])))
                \div tol.den

\* The unique points accumulated before point i that are relatively close to it.
C25_Qualifying(i) ==
    {j \in 1..C24_CountBefore(i) :
        C25_RelativeClose(points[i], unique_points[j], tolerance)}

\* C25: find_unique_vertices welds point a to the existing unique point b iff
\* |a - b| <= tolerance * max(|a|, |b|) in every component: point i joins the
\* first earlier unique point that is relatively close to it and becomes a
\* unique point of its own when there is none.
C25_RelativeClosenessOnly ==
    pc = "weld_done" =>
        \A i \in 1..Len(points) :
            vertex_map[i] = IF C25_Qualifying(i) # {}
                            THEN C24_Min(C25_Qualifying(i)) - 1
                            ELSE C24_CountBefore(i)

(***************************************************************************)
(* Claims about optimize_scad (specification SpecOptimize)                 *)
(***************************************************************************)
\* The 0-based indices of the points some face refers to.
C7_Referenced == {i \in 0..(Len(unique_points) - 1) :
                    \E k \in 1..Len(faces) : \E c \in 1..3 : faces[k][c] = i}

\* The position (0-based) of referenced point i among the referenced points.
C7_Rank(i) == Cardinality({j \in C7_Referenced : j < i})

\* C7: optimize_scad returns exactly the referenced points in their original
\* relative order, and as many faces in the same order, each corner of which
\* refers to the same point as before.
C7_OptimizeRenumbers ==
    /\ pc # "raised"
    /\ pc = "opt_done" =>
          /\ Len(final_points) = Cardinality(C7_Referenced)
          /\ \A i \in C7_Referenced : final_points[C7_Rank(i) + 1] = unique_points[i + 1]
          /\ Len(final_faces) = Len(faces)
          /\ \A k \in 1..Len(faces) :
                /\ Len(final_faces[k]) = 3
                /\ \A c \in 1..3 :
                      /\ final_faces[k][c] \in 0..(Len(final_points) - 1)
                      /\ final_points[final_faces[k][c] + 1] = unique_points[faces[k][c] + 1]

\* An unreferenced point precedes a referenced one: the indices shift.
C7_Witness ==
    /\ pc = "opt_done"
    /\ Len(faces) = 2
    /\ faces[1] # faces[2]
    /\ \E i, j \in 0..(Len(unique_points) - 1) :
          i < j /\ i \notin C7_Referenced /\ j \in C7_Referenced
    /\ final_faces # faces

(***************************************************************************)
(* Claims about compare_metrics and verify_existing_conversion             *)
(* (specification SpecVerify)                                              *)
(***************************************************************************)
\* The entries of a comparison: volume, surface area, and the three
\* bounding-box dimensions.
C8_Entries(cmp) ==
    (IF cmp.volume # None THEN {cmp.volume[1]} ELSE {})
    \cup (IF cmp.surface_area # None THEN {cmp.surface_area[1]} ELSE {})
    \cup (IF cmp.bounding_box # None
          THEN {cmp.bounding_box[1][d] : d \in {"width", "height", "depth"}} ELSE {})

\* C8: for each compared metric, difference_percent is exactly 0 when source
\* and target are both 0, and +infinity when the source is 0 and the target
\* is not.
C8_ZeroSourcePercent ==
    comparison # None =>
        \A e \in C8_Entries(comparison[1]) :
            e.stl = 0 =>
                IF e.scad = 0
                THEN ~e.difference_percent.inf /\ e.difference_percent.num = 0
                ELSE e.difference_percent.inf

\* abs(p) > tol, for a percentage p and a tolerance tol.
C9_Above(p, tol) == p.inf \/ Abs(p.num) * tol.den > tol.num * p.den

C9_Metrics ==
    {"volume", "surface_area", "bounding_box_width", "bounding_box_height",
     "bounding_box_depth"}

\* The key of the metric sets, and of the tolerance, a metric belongs to.
C9_Key(metric) ==
    IF metric \in {"volume", "surface_area"} THEN metric ELSE "bounding_box"

C9_Dim(metric) ==
    CASE metric = "bounding_box_width" -> "width"
      [] metric = "bounding_box_height" -> "height"
      [] metric = "bounding_box_depth" -> "depth"

C9_Present(metric) ==
    stl_metrics[C9_Key(metric)] # None /\ scad_metrics[C9_Key(metric)] # None

\* The source and target values of a present metric.
C9_Source(metric) ==
    IF metric \in {"volume", "surface_area"} THEN stl_metrics[metric][1]
    ELSE stl_metrics.bounding_box[1][C9_Dim(metric)]

C9_Target(metric) ==
    IF metric \in {"volume", "surface_area"} THEN scad_metrics[metric][1]
    ELSE scad_metrics.bounding_box[1][C9_Dim(metric)]

\* The comparison entry of a metric: <<>> or <<entry>>.
C9_Entry(metric) ==
    IF metric \in {"volume", "surface_area"} THEN comparison[1][metric]
    ELSE IF comparison[1].bounding_box = None THEN None
         ELSE Some(comparison[1].bounding_box[1][C9_Dim(metric)])

C9_Listed(metric) ==
    \E i \in 1..Len(report[1].failures) : report[1].failures[i].metric = metric

\* The present metrics whose abs(difference_percent) exceeds the tolerance.
C9_Failing ==
    {m \in C9_Metrics :
        /\ C9_Present(m)
        /\ C9_Entry(m) # None
        /\ C9_Above(C9_Entry(m)[1].difference_percent, ver_tolerance[C9_Key(m)])}

\* C9: in verify_existing_conversion a metric present in both sets has a
\* comparison entry for its two values and fails iff abs(difference_percent)
\* exceeds its tolerance; an absent metric has no entry and no failure;
\* passed is true iff no present metric fails; source volume 100 against
\* target 101 passes at tolerance 2.0 and fails at 0.5, listed with
\* difference_percent 1.0.
C9_FailsIffAboveTolerance ==
    vpc = "returned" =>
        /\ \A m \in C9_Metrics :
              IF C9_Present(m)
              THEN /\ C9_Entry(m) # None
                   /\ C9_Entry(m)[1].stl = C9_Source(m)
                   /\ C9_Entry(m)[1].scad = C9_Target(m)
                   /\ C9_Listed(m) <=> m \in C9_Failing
              ELSE C9_Entry(m) = None /\ ~C9_Listed(m)
        /\ passed <=> C9_Failing = {}
        /\ (stl_metrics.volume = Some(100) /\ scad_metrics.volume = Some(101)) =>
              /\ ver_tolerance.volume = Pct(2, 1) => ~C9_Listed("volume")
              /\ ver_tolerance.volume = Pct(1, 2) =>
                    /\ ~passed
                    /\ \E i \in 1..Len(report[1].failures) :
                          LET f == report[1].failures[i]
                          IN /\ f.metric = "volume"
                             /\ ~f.difference_percent.inf
                             /\ f.difference_percent.num = f.difference_percent.den

\* Volume 100 against 101 fails at tolerance 0.5 while an absent metric is
\* skipped.
C9_Witness ==
    /\ vpc = "returned"
    /\ stl_metrics.volume = Some(100)
    /\ scad_metrics.volume = Some(101)
    /\ scad_metrics.surface_area = None
    /\ ver_tolerance.volume = Pct(1, 2)
    /\ ~passed
    /\ C9_Listed("volume")
    /\ Len(report[1].failures) = 1

\* C29: in the result of verify_existing_conversion, passed is true iff
\* report['failures'] is empty iff report['verification_result'] is 'passed',
\* and every failure names a metric that has a comparison entry whose
\* abs(difference_percent), recorded in the failure, exceeds the tolerance
\* recorded in the failure, which is the tolerance of that metric.
C29_VerdictsAgree ==
    vpc = "returned" =>
        /\ passed <=> report[1].failures = <<>>
        /\ passed <=> report[1].verification_result = "passed"
        /\ report[1].verification_result \in {"passed", "failed"}
        /\ \A i \in 1..Len(report[1].failures) :
              LET f == report[1].failures[i]
              IN /\ f.metric \in C9_Metrics
                 /\ C9_Entry(f.metric) # None
                 /\ f.tolerance = ver_tolerance[C9_Key(f.metric)]
                 /\ f.difference_percent =
                       AbsPercent(C9_Entry(f.metric)[1].difference_percent)
                 /\ C9_Above(f.difference_percent, f.tolerance)

\* A failed verification with two or more failures, one of them of a
\* bounding-box dimension, the volume being within tolerance.
C29_Witness ==
    /\ vpc = "returned"
    /\ ~passed
    /\ report[1].verification_result = "failed"
    /\ Len(report[1].failures) >= 2
    /\ \A i \in 1..Len(report[1].failures) : report[1].failures[i].metric # "volume"

(***************************************************************************)
(* Claims about batch_verify (specification SpecBatch)                     *)
(***************************************************************************)
C10_Names == {StlName(stl_files[i]) : i \in 1..Len(stl_files)}

\* C10: when some input is corrupt while the inputs' names differ and every
\* valid input has an artifact that renders, batch_verify still ends with a
\* result for every input and a summary whose total is the number of inputs.
C10_BatchToleratesFailure ==
    ( /\ b_pc \in {"returned", "raised"}
      /\ \E f \in Range(stl_files) : disk[f] = "corrupt"
      /\ Cardinality(C10_Names) = Len(stl_files)
      /\ \A f \in Range(stl_files) :
            disk[f] = "valid" => artifacts[ScadName(f)] \in {"good", "off"} )
    => /\ b_summary # None
       /\ b_summary[1].total = Len(stl_files)
       /\ \A n \in C10_Names : \E r \in b_results : r.name = n

\* C11: every artifact batch_verify has measured and verified for an input
\* was written by a conversion of that input during the same call.
C11_ConvertsBeforeVerifying ==
    \A i \in 1..b_idx : ScadName(stl_files[i]) \in b_converted

\* The distinct report files, result entries and artifact files of the
\* inputs.
C12_ArtifactNames == {ScadName(stl_files[i]) : i \in 1..Len(stl_files)}

\* C12: a call on n distinct input paths that returns has written n report
\* files, holds n result entries and n artifact names, and its summary has
\* total = n and passed + failed = n.
C12_OneReportPerInput ==
    b_pc = "returned" =>
        /\ Cardinality(b_reports) = Len(stl_files)
        /\ Cardinality(b_results) = Len(stl_files)
        /\ Cardinality(C12_ArtifactNames) = Len(stl_files)
        /\ b_summary[1].total = Len(stl_files)
        /\ b_summary[1].passed + b_summary[1].failed = Len(stl_files)

(***************************************************************************)
(* Claims about the batch command (specification SpecCli)                  *)
(***************************************************************************)
\* C13: when the files are found and the summary can be written, the batch
\* command does not abort whatever step fails for a file: it ends with a
\* summary holding one entry per file found, total = number of files and
\* passed + failed = total, and a file whose handling failed has an error
\* entry.
C13_PerFileFailureIsolated ==
    (c_pc = "returned" /\ c_dir_exists /\ c_files # <<>> /\ c_summary_ok) =>
        /\ c_exit # Some(1)
        /\ c_summary # None
        /\ c_summary[1].total = Len(c_files)
        /\ c_summary[1].passed + c_summary[1].failed = c_summary[1].total
        /\ \A f \in Range(c_files) :
              \E r \in c_summary[1].results :
                  /\ r.name = RelName(f)
                  /\ RaisesAt(c_fate[f], c_html) # "none" => r.error # "none"

(***************************************************************************)
(* Claims about run_openscad (specification SpecRun)                       *)
(***************************************************************************)
\* C16: run_openscad never raises: whatever the outcome of the subprocess it
\* returns a boolean, and it returns False when the exit code is non-zero or
\* the timeout expires.
C16_NeverRaises ==
    /\ r_pc # "raised"
    /\ r_pc = "returned" =>
          /\ r_result \in {Some(TRUE), Some(FALSE)}
          /\ r_outcome \in {"nonzero", "timeout"} => r_result = Some(FALSE)
    /\ r_pc # "returned" => r_result = None

\* The call has returned False after the timeout expired.
C16_Witness ==
    /\ r_pc = "returned"
    /\ r_outcome = "timeout"
    /\ r_result = Some(FALSE)

\* C17: when the call ended by the timeout, or the renderer was still alive
\* after the command returned, the renderer has been force-terminated by
\* name, False is returned and no renderer started by the call is running.
C17_RendererReaped ==
    (r_pc = "returned" /\ (r_outcome = "timeout" \/ (r_outcome = "exit0" /\ r_lingering)))
    => /\ r_killed_by_name
       /\ r_result = Some(FALSE)
       /\ r_process # "running"

(***************************************************************************)
(* Claims about get_openscad_path (specification SpecLocate)               *)
(***************************************************************************)
\* A candidate qualifies: it exists, its version check runs, and the version
\* it reports is not below the required one.
C18_Qualifies(c) ==
    /\ c.exists
    /\ c.runs
    /\ c.version # None
    /\ ~StrLess(c.version[1], RequiredVersion)

C18_Qualifying == {i \in 1..Len(l_candidates) : C18_Qualifies(l_candidates[i])}

\* C18: on the candidate-list platforms get_openscad_path returns the first
\* candidate that qualifies and raises iff none does.
C18_FirstQualifyingCandidate ==
    (l_platform # "win32" /\ l_pc \in {"returned", "raised"}) =>
        IF C18_Qualifying = {}
        THEN l_pc = "raised"
        ELSE /\ l_pc = "returned"
             /\ \E i \in C18_Qualifying :
                   /\ \A j \in C18_Qualifying : i <= j
                   /\ l_result = Some(l_candidates[i].path)

\* The version check is about to run a candidate that exists.
C28_Probing ==
    /\ l_pc = "start"
    /\ IF l_platform = "win32"
       THEN l_win.exe_exists /\ l_candidates[1].exists
       ELSE l_idx < Len(l_candidates) /\ l_candidates[l_idx + 1].exists

C28_Candidate == l_candidates[IF l_platform = "win32" THEN 1 ELSE l_idx + 1]

\* C28: on every platform, after the version-check invocation of a candidate
\* has succeeded, the log file that check_version reads holds the output of
\* that invocation, and the token the gate evaluates is the token of that
\* output.
C28_GateReadsOwnOutput ==
    [][(C28_Probing /\ C28_Candidate.runs) =>
          /\ l_log' = Some([token |-> C28_Candidate.version])
          /\ l_gate_token' \in {None, C28_Candidate.version}]_vars

(***************************************************************************)
(* Claims about the log paths (specification SpecLog)                      *)
(***************************************************************************)
\* C19: two invocations in flight at the same time never use the same log
\* path, and no version check reads a log that another caller wrote.
C19_LogPathsDistinct ==
    /\ \A v, w \in Callers :
          (v # w /\ w_log[v] # None /\ w_log[w] # None) => w_log[v] # w_log[w]
    /\ \A w \in Callers : w_read[w] \in {None, Some(w)}

(***************************************************************************)
(* Claims about calculate_scad_metrics (specification SpecMetrics)         *)
(***************************************************************************)
\* The value that follows a label is missing or is no number.
C20_Unusable(text) ==
    text = None \/ ClassPrefix(text[1]) = <<>> \/ ~IsFloat(ClassPrefix(text[1]))

C20_BBoxUnusable(bbox_min, bbox_max) ==
    \/ ~BBoxMatch(bbox_min)
    \/ ~BBoxMatch(bbox_max)
    \/ \E i \in 1..3 : ~IsFloat(bbox_min[1][i]) \/ ~IsFloat(bbox_max[1][i])

\* C20: once calculate_scad_metrics has called run_openscad, it raises only
\* when run_openscad returned False; when run_openscad returned True it
\* returns a metric set in which a field is None exactly when its label is
\* not found or its value is unparsable.
C20_RaisesOnlyOnRenderFailure ==
    /\ (m_pc = "raised" /\ m_success # None) => m_success = Some(FALSE)
    /\ m_success = Some(TRUE) =>
          /\ m_pc = "returned"
          /\ m_metrics # None
          /\ m_metrics[1].volume = None <=>
                (m_echo = None \/ C20_Unusable(m_echo[1].volume))
          /\ m_metrics[1].surface_area = None <=>
                (m_echo = None \/ C20_Unusable(m_echo[1].area))
          /\ m_metrics[1].bounding_box = None <=>
                (m_echo = None
                 \/ C20_BBoxUnusable(m_echo[1].bbox_min, m_echo[1].bbox_max))

(***************************************************************************)
(* Claims about the command-line program (specification SpecMain)          *)
(***************************************************************************)
\* The exit code the run calls for: 1 after an error, 2 after a metric
\* outside tolerance, 0 otherwise.
C21_Expected(events) ==
    IF events \cap {"usage", "bad_option", "op_error"} # {} THEN 1
    ELSE IF "out_of_tolerance" \in events THEN 2
    ELSE 0

\* C21: through every entry point the process exits with 0 after a success,
\* 1 after an operational or validation error and 2 after a verification
\* that found a metric outside tolerance.
C21_ExitCodes == e_pc = "exited" => e_exit = Some(C21_Expected(e_events))

\* A command line "convert <input> <output> [options]" with valid options.
C22_Documented ==
    /\ Len(e_argv) >= 3
    /\ e_argv[1] = "convert"
    /\ ~IsOption(e_argv[2])
    /\ ~IsOption(e_argv[3])
    /\ \A i \in 4..Len(e_argv) :
          e_argv[i] \in {"--debug", "--tolerance=0.001"}

\* C22: for "convert <input> <output> [--tolerance=<float>] [--debug]" the
\* program calls stl2scad with the first argument after the command word as
\* input_file, the second as output_file, tolerance 1e-6 and debug False
\* unless the options are given.
C22_ConvertArguments ==
    (e_pc = "exited" /\ C22_Documented) =>
        /\ e_call # None
        /\ e_call[1].fn = "stl2scad"
        /\ e_call[1].input_file = e_argv[2]
        /\ e_call[1].output_file = e_argv[3]
        /\ e_call[1].tolerance =
              (IF \E i \in 4..Len(e_argv) : e_argv[i] = "--tolerance=0.001"
               THEN [num |-> 1, den |-> 1000] ELSE TolDefault)
        /\ e_call[1].debug = (\E i \in 4..Len(e_argv) : e_argv[i] = "--debug")

(***************************************************************************)
(* Claims about the artifact of verify_conversion (specification SpecTmp)  *)
(***************************************************************************)
\* C30: after verify_conversion was called without a SCAD file, the file that
\* the result names in scad_file exists while verify_command goes on, and the
\* visualization step finds the file it is handed.
C30_ArtifactOutlivesResult ==
    t_output = None =>
        /\ (t_pc \in {"returned", "reported"} /\ t_visualize) =>
              t_result[1].scad_file \in t_fs
        /\ t_vis # None => t_vis[1].found

====
